---- MODULE Spec2Model ----
(***************************************************************************)
(* Model of ladybug's Header (ladybug/header.py), the Temperature data     *)
(* type (ladybug/types/temperature.py) and the annual irradiance object    *)
(* Wea (ladybug/wea.py).                                                   *)
(*                                                                         *)
(* Five specifications share the variables:                                *)
(*   SpecHeader  one Header: construction, its setters, its text form;     *)
(*   Spec        one Wea: the constructors, the two series setters,        *)
(*               to_json / from_json and write (what write leaves on disk  *)
(*               is part of its result);                                   *)
(*   SpecZhangHuang  the constructor Wea.from_zhang_huang_solar;           *)
(*   SpecSample  the per-sample derived quantities of a Wea;               *)
(*   SpecTemperature  the unit conversions of the Temperature data type.   *)
(*                                                                         *)
(* Python values are encoded so that TLC can compare them: None is the     *)
(* string NoneVal where a string is expected and the record PyNone where   *)
(* a number or a boolean is expected.                                      *)
(***************************************************************************)
EXTENDS Integers, Sequences, FiniteSets, TLC

VARIABLES
    header,      \* the Header object under consideration, or NoHeader
    h_result,    \* outcome of the last Header operation
    wea,         \* the Wea object under consideration, or NoWea
    result,      \* outcome of the last Wea operation
    sample,      \* SpecSample: one sample of a Wea with the sun at its timestamp
    derived,     \* SpecSample: what each irradiance method last returned for it
    copy,        \* SpecHeader: the Header that header.duplicate() returned, or NoCopy
    conversion,  \* SpecTemperature: outcome of the last Temperature call
    raise_exception_default
                 \* the value raise_exception has in is_unit_acceptable when the
                 \* caller does not pass it; ladybug/types/_base.py, which
                 \* declares it, is not among the sources, so either value is
                 \* possible and it is the same throughout a behaviour

vars == <<header, h_result, wea, result, sample, derived, copy, conversion,
          raise_exception_default>>

\* ------------------------------------------------------------------------
\* Python values
\* ------------------------------------------------------------------------

\* None where a string (a unit, a name) is expected.
NoneVal == "<None>"

\* str(x) of a unit or a name: None prints as the four letters None.
Str(x) == IF x = NoneVal THEN "None" ELSE x

\* ------------------------------------------------------------------------
\* Data types (ladybug/types/temperature.py; the base class and the
\* DataTypes registry are not part of the sources at hand)
\* ------------------------------------------------------------------------

\* Temperature and the subclasses that inherit its units unchanged.
TemperatureClasses == {"Temperature", "DryBulbTemperature"}

\* Temperature._units
Temperature_units == {"C", "F", "K"}

\* The irradiance data type names Wea asks the registry for.
IrradianceNames == {"Direct Normal Irradiance", "Diffuse Horizontal Irradiance"}

\* A data type object: its class, its (mutable) name and, for a generic type
\* built by the registry from a unit, that unit.
DataTypeObj(c, u) == [isDataType |-> TRUE, cls |-> c, name |-> c, gunit |-> u]

\* A plain string passed where a data type is expected.
DataTypeStr(s) == [isDataType |-> FALSE, cls |-> "str", name |-> s, gunit |-> NoneVal]

\* The units a data type object accepts.
units(dt) ==
    IF dt.cls \in TemperatureClasses THEN Temperature_units
    ELSE IF dt.cls \in IrradianceNames THEN {"W/m2"}
    ELSE IF dt.gunit = NoneVal THEN {} ELSE {dt.gunit}

\* DataTypeBase.is_unit_acceptable(unit, raise_exception): "True", "False",
\* or "raise" (the unit is not legal and the call is strict).  None is legal.
\* The call returns whether the unit is legal; the strict mode, which fails
\* instead of returning False, is optional.
is_unit_acceptable(dt, unit, raise_exception) ==
    IF unit = NoneVal \/ unit \in units(dt) THEN "True"
    ELSE IF raise_exception THEN "raise" ELSE "False"

\* A call without raise_exception takes the default of the declaration,
\* raise_exception_default: strict or not, the same for every call.
DefaultDeclared == raise_exception_default \in BOOLEAN

\* The names the registry knows.
RegisteredNames == TemperatureClasses \cup IrradianceNames

\* DataTypes.type_by_name(name): the registered type, or None (isDataType FALSE).
type_by_name(name) ==
    IF name \in RegisteredNames THEN DataTypeObj(name, NoneVal)
    ELSE DataTypeStr(NoneVal)

\* DataTypes.type_by_name_and_unit(name, unit): [status, dt].  A registered
\* name gives its type when the unit is legal for it; an unregistered name
\* gives a generic type carrying the name and the unit.  What a registered
\* name with a unit illegal for it gives is not documented; it is taken to
\* fail, and no property below is decided by calls of that kind.
type_by_name_and_unit(name, unit) ==
    LET found == type_by_name(name) IN
    IF found.isDataType
    THEN IF is_unit_acceptable(found, unit, TRUE) = "True"
         THEN [status |-> "ok", dt |-> found]
         ELSE [status |-> "ValueError", dt |-> found]
    ELSE [status |-> "ok",
          dt |-> [isDataType |-> TRUE, cls |-> "Generic", name |-> name,
                  gunit |-> IF unit = "" THEN NoneVal ELSE unit]]

\* ------------------------------------------------------------------------
\* Analysis periods and metadata (AnalysisPeriod is a collaborator)
\* ------------------------------------------------------------------------

\* The analysis period of a whole year, the default.
AnnualPeriod == "1/1 to 12/31 between 0 to 23 @1"

\* AnalysisPeriod.from_analysis_period(ap): None gives the annual default.
from_analysis_period(ap) == IF ap = NoneVal THEN AnnualPeriod ELSE ap

\* `metadata or {}`: metadata is [none, d], d a set of <<key, value>> pairs.
metadata_or_empty(md) == IF md.none THEN {} ELSE md.d

\* ------------------------------------------------------------------------
\* Header (ladybug/header.py)
\* ------------------------------------------------------------------------

NoHeader == [exists |-> FALSE, data_type |-> DataTypeStr(NoneVal), unit |-> NoneVal,
             analysis_period |-> NoneVal, metadata |-> {}]

\* Header.set_data_type_and_unit(data_type, unit): [status, h].  For a data
\* type object the unit is checked by a call without raise_exception, whose
\* result is not used: the check rejects an illegal unit only when the
\* default of raise_exception is strict.
set_data_type_and_unit(h, data_type, unit) ==
    LET u == IF unit = "" \/ unit = NoneVal THEN NoneVal ELSE unit IN
    IF data_type.isDataType
    THEN IF is_unit_acceptable(data_type, unit, raise_exception_default) = "raise"
         THEN [status |-> "ValueError", h |-> h]
         ELSE [status |-> "ok", h |-> [h EXCEPT !.data_type = data_type, !.unit = u]]
    ELSE LET r == type_by_name_and_unit(data_type.name, unit) IN
         IF r.status # "ok"
         THEN [status |-> r.status, h |-> h]
         ELSE [status |-> "ok", h |-> [h EXCEPT !.data_type = r.dt, !.unit = u]]

\* Header.__init__(data_type, unit, analysis_period, metadata): [status, h].
Header_init(data_type, unit, analysis_period, metadata) ==
    IF ~data_type.isDataType
    THEN [status |-> "AssertionError", h |-> NoHeader]
    ELSE LET r == set_data_type_and_unit([NoHeader EXCEPT !.exists = TRUE],
                                         data_type, unit) IN
         IF r.status # "ok"
         THEN [status |-> r.status, h |-> NoHeader]
         ELSE [status |-> "ok",
               h |-> [r.h EXCEPT
                        !.analysis_period = from_analysis_period(analysis_period),
                        !.metadata = metadata_or_empty(metadata)]]

\* The data_type setter: [status, h].
data_type_setter(h, d_typ) ==
    IF d_typ.isDataType
    THEN IF is_unit_acceptable(d_typ, h.unit, TRUE) = "raise"
         THEN [status |-> "ValueError", h |-> h]
         ELSE [status |-> "ok", h |-> [h EXCEPT !.data_type = d_typ]]
    ELSE LET d_typ_check == type_by_name(d_typ.name) IN
         IF d_typ_check.isDataType
         THEN IF is_unit_acceptable(d_typ_check, h.unit, TRUE) = "raise"
              THEN [status |-> "ValueError", h |-> h]
              ELSE [status |-> "ok", h |-> [h EXCEPT !.data_type = d_typ_check]]
         ELSE [status |-> "ok", h |-> [h EXCEPT !.data_type.name = d_typ.name]]

\* The unit setter: [status, h].
unit_setter(h, u) ==
    IF is_unit_acceptable(h.data_type, u, TRUE) = "raise"
    THEN [status |-> "ValueError", h |-> h]
    ELSE [status |-> "ok", h |-> [h EXCEPT !.unit = u]]

\* The analysis_period setter: [status, h].
analysis_period_setter(h, ap) ==
    [status |-> "ok", h |-> [h EXCEPT !.analysis_period = from_analysis_period(ap)]]

\* AnalysisPeriod.from_string(str(analysis_period)): an analysis period is
\* held as its string, and the string gives that period back.
from_string(analysis_period_string) == analysis_period_string

\* A duplicate made without deepcopy: the copy holds the data type object of
\* the original, and its metadata mapping when that is not empty.
duplicate_by_reference(h) ==
    LET r == Header_init(h.data_type, h.unit, from_string(h.analysis_period),
                         [none |-> FALSE, d |-> h.metadata]) IN
    [status |-> r.status, h |-> r.h, data_type_shared |-> TRUE,
     metadata_shared |-> h.metadata # {}]

\* Header.duplicate(): [status, h, data_type_shared, metadata_shared].  The
\* data type and the metadata are deep copies, objects of the new header
\* alone; the two flags say which objects the two headers have in common.
duplicate(h) ==
    LET r == Header_init(h.data_type, h.unit, from_string(h.analysis_period),
                         [none |-> FALSE, d |-> h.metadata]) IN
    [status |-> r.status, h |-> r.h, data_type_shared |-> FALSE,
     metadata_shared |-> FALSE]

\* Whether the data_type setter, given d_typ, renames the data type object
\* the header holds instead of binding another one.
renames_in_place(d_typ) == ~d_typ.isDataType /\ ~type_by_name(d_typ.name).isDataType

\* metadata[key] = value on the mapping a header hands out.
metadata_setitem(d, key, value) == {kv \in d : kv[1] # key} \cup {<<key, value>>}

\* repr(data_type): the data type's name.
repr_data_type(dt) == dt.name

\* repr(metadata) of the metadata mappings the model draws.
repr_metadata(d) == IF d = {} THEN "{}" ELSE "{'city': 'x'}"

\* Header.__repr__: "%s(%s)|%s|%s", as a sequence of tokens.  A token is one of
\* the format's own characters "(", ")", "|" or a rendered field.
Header_repr(h) ==
    <<repr_data_type(h.data_type), "(", Str(h.unit), ")", "|",
      h.analysis_period, "|", repr_metadata(h.metadata)>>

\* str.replace(old, new) on a token sequence; new is a token sequence.
RECURSIVE replace(_, _, _)
replace(s, old, new) ==
    IF s = <<>> THEN <<>>
    ELSE (IF Head(s) = old THEN new ELSE <<Head(s)>>) \o replace(Tail(s), old, new)

\* str.split(sep) on a token sequence: the fields between the separators,
\* each field the concatenation of its tokens.
RECURSIVE split(_, _)
split(s, sep) ==
    IF s = <<>> THEN <<"">>
    ELSE LET rest == split(Tail(s), sep) IN
         IF Head(s) = sep THEN <<"">> \o rest
         ELSE <<Head(s) \o Head(rest)>> \o Tail(rest)

\* cls(*args) with string arguments: Header.__init__ takes at most four
\* positional arguments; a string given as metadata is kept as it is.
Header_init_from_strings(args) ==
    IF Len(args) > 4 THEN [status |-> "TypeError", h |-> NoHeader]
    ELSE Header_init(DataTypeStr(args[1]),
                     IF Len(args) >= 2 THEN args[2] ELSE NoneVal,
                     IF Len(args) >= 3 THEN args[3] ELSE NoneVal,
                     IF Len(args) >= 4 /\ args[4] # ""
                     THEN [none |-> FALSE, d |-> {<<"str", args[4]>>}]
                     ELSE [none |-> TRUE, d |-> {}])

\* Header.from_header(text) for a header string: [status, h].  Whatever the
\* constructor raises is re-raised as ValueError.
from_header(text) ==
    LET _h == replace(replace(replace(text, "|", <<"**">>), "(", <<"**">>), ")", <<>>)
        r == Header_init_from_strings(split(_h, "**"))
    IN  IF r.status = "ok" THEN r ELSE [status |-> "ValueError", h |-> NoHeader]

\* A key the dictionary given to Header.from_json does not hold.
MissingKey == "<missing>"

\* `if key not in data: data[key] = None`, for one key.
key_or_none(value) == IF value = MissingKey THEN NoneVal ELSE value

\* AnalysisPeriod.from_json(data): None gives the annual default; the
\* dictionary of a period stands for the period it describes.
AnalysisPeriod_from_json(data) == IF data = NoneVal THEN AnnualPeriod ELSE data

\* Header.from_json(data): [status, h, keys], keys being the keys the
\* dictionary holds after the call.  data is [data_type, unit,
\* analysis_period, metadata] with data_type a name.
Header_from_json(data) ==
    LET unit == key_or_none(data.unit)
        metadata == IF data.metadata.missing THEN [none |-> TRUE, d |-> {}]
                    ELSE [none |-> FALSE, d |-> data.metadata.d]
        keys == {"data_type", "unit", "analysis_period", "metadata"}
        data_type == type_by_name_and_unit(key_or_none(data.data_type), unit)
    IN  IF data_type.status # "ok"
        THEN [status |-> data_type.status, h |-> NoHeader, keys |-> keys]
        ELSE LET ap == AnalysisPeriod_from_json(key_or_none(data.analysis_period))
                 r == Header_init(data_type.dt, unit, ap, metadata)
             IN  [status |-> r.status, h |-> r.h, keys |-> keys]

\* ------------------------------------------------------------------------
\* SpecHeader: one Header and the operations applied to it
\* ------------------------------------------------------------------------

DataTypeInputs ==
    {DataTypeObj(c, NoneVal) : c \in TemperatureClasses \cup {"Direct Normal Irradiance"}}
    \cup {DataTypeStr(s) : s \in {"Temperature", "Zone Load"}}

UnitInputs == {NoneVal, "", "C", "K", "W/m2", "kg"}

PeriodInputs == {NoneVal, "1/1 to 1/31 between 0 to 23 @1"}

MetadataInputs == {[none |-> TRUE, d |-> {}], [none |-> FALSE, d |-> {<<"city", "x">>}]}

\* Dictionaries for Header.from_json: the name of a registered or an
\* unregistered data type, and each other key present or not.
HeaderJsonInputs ==
    [data_type : {"Temperature", "Zone Load"},
     unit : {MissingKey, "C", "kWh"},
     analysis_period : {MissingKey, "1/1 to 1/31 between 0 to 23 @1"},
     metadata : {[missing |-> TRUE, d |-> {}],
                 [missing |-> FALSE, d |-> {<<"city", "x">>}]}]

NoText == <<>>

HResult(op, status, q, u, text, h) ==
    [op |-> op, status |-> status, data_type |-> q, unit |-> u, text |-> text, h |-> h]

NoHResult == HResult("none", "ok", DataTypeStr(NoneVal), NoneVal, NoText, NoHeader)

\* The variables of the other specifications, at rest.
NoWea == [exists |-> FALSE]
NoResult == [op |-> "none", status |-> "ok"]
NoSample == [exists |-> FALSE]
NotComputed == [status |-> "none"]
NoDerived == [directional_irradiance |-> NotComputed,
              global_horizontal_irradiance |-> NotComputed,
              direct_horizontal_irradiance |-> NotComputed]
NoCopy == [exists |-> FALSE]
NoConversion == [op |-> "none", status |-> "ok"]

WeaAtRest == wea = NoWea /\ result = NoResult
SampleAtRest == sample = NoSample /\ derived = NoDerived
HeaderAtRest == header = NoHeader /\ h_result = NoHResult /\ copy = NoCopy
TemperatureAtRest == conversion = NoConversion

InitHeader ==
    HeaderAtRest /\ WeaAtRest /\ SampleAtRest /\ TemperatureAtRest /\ DefaultDeclared

\* Header(data_type, unit, analysis_period, metadata)
HeaderConstruct ==
    /\ ~header.exists
    /\ \E q \in DataTypeInputs, u \in UnitInputs, ap \in PeriodInputs,
          md \in MetadataInputs :
          LET r == Header_init(q, u, ap, md) IN
          /\ header' = r.h
          /\ h_result' = HResult("init", r.status, q, u, NoText, NoHeader)
    /\ UNCHANGED <<raise_exception_default, wea, result, sample, derived, copy, conversion>>

\* Header.from_json(data)
HeaderFromJson ==
    /\ ~header.exists
    /\ \E data \in HeaderJsonInputs :
          LET r == Header_from_json(data) IN
          /\ header' = r.h
          /\ h_result' = [op |-> "from_json", status |-> r.status, data |-> data,
                          keys |-> r.keys]
    /\ UNCHANGED <<raise_exception_default, wea, result, sample, derived, copy, conversion>>

\* header.data_type = d_typ
HeaderSetDataType ==
    /\ header.exists /\ ~copy.exists
    /\ \E d \in DataTypeInputs :
          LET r == data_type_setter(header, d) IN
          /\ header' = r.h
          /\ h_result' = HResult("data_type", r.status, d, NoneVal, NoText, NoHeader)
    /\ UNCHANGED <<raise_exception_default, wea, result, sample, derived, copy, conversion>>

\* header.unit = u
HeaderSetUnit ==
    /\ header.exists /\ ~copy.exists
    /\ \E u \in UnitInputs :
          LET r == unit_setter(header, u) IN
          /\ header' = r.h
          /\ h_result' = HResult("unit", r.status, DataTypeStr(NoneVal), u, NoText,
                                 NoHeader)
    /\ UNCHANGED <<raise_exception_default, wea, result, sample, derived, copy, conversion>>

\* header.analysis_period = ap
HeaderSetAnalysisPeriod ==
    /\ header.exists /\ ~copy.exists
    /\ \E ap \in PeriodInputs :
          LET r == analysis_period_setter(header, ap) IN
          /\ header' = r.h
          /\ h_result' = HResult("analysis_period", r.status, DataTypeStr(NoneVal),
                                 NoneVal, NoText, NoHeader)
    /\ UNCHANGED <<raise_exception_default, wea, result, sample, derived, copy, conversion>>

\* header.set_data_type_and_unit(data_type, unit)
HeaderSetDataTypeAndUnit ==
    /\ header.exists /\ ~copy.exists
    /\ \E q \in DataTypeInputs, u \in UnitInputs :
          LET r == set_data_type_and_unit(header, q, u) IN
          /\ header' = r.h
          /\ h_result' = HResult("set_data_type_and_unit", r.status, q, u, NoText,
                                 NoHeader)
    /\ UNCHANGED <<raise_exception_default, wea, result, sample, derived, copy, conversion>>

\* Header.from_header(repr(header))
HeaderFromHeader ==
    /\ header.exists /\ ~copy.exists
    /\ LET text == Header_repr(header)
           r == from_header(text) IN
       h_result' = HResult("from_header", r.status, DataTypeStr(NoneVal), NoneVal,
                           text, r.h)
    /\ UNCHANGED <<raise_exception_default, header, wea, result, sample, derived, copy, conversion>>

\* What is done to a header and to its copy once the copy exists.
Owners == {"original", "copy"}
CopyDataTypeInputs == {DataTypeStr("Zone Load"), DataTypeObj("Temperature", NoneVal)}
CopyUnitInputs == {"K", "kg"}
CopyMetadataItems == {<<"city", "y">>}
CopyPeriodInputs == {"1/1 to 1/31 between 0 to 23 @1"}

\* The header an operation is called on, and the other one.
self_of(who) == IF who = "original" THEN header ELSE copy.h
other_of(who) == IF who = "original" THEN copy.h ELSE header

\* The two headers after an operation called on header who, which leaves
\* self and other behind.
Outcome(who, op, status, self, other, data_type_shared, metadata_shared) ==
    /\ header' = IF who = "original" THEN self ELSE other
    /\ copy' = [exists |-> TRUE, h |-> IF who = "original" THEN other ELSE self,
                data_type_shared |-> data_type_shared,
                metadata_shared |-> metadata_shared]
    /\ h_result' = HResult(op, status, DataTypeStr(NoneVal), NoneVal, <<who>>,
                           NoHeader)

\* copy = header.duplicate()
HeaderDuplicate ==
    /\ header.exists /\ ~copy.exists
    /\ LET r == duplicate(header) IN
       /\ copy' = [exists |-> r.status = "ok", h |-> r.h,
                   data_type_shared |-> r.data_type_shared,
                   metadata_shared |-> r.metadata_shared]
       /\ h_result' = HResult("duplicate", r.status, DataTypeStr(NoneVal), NoneVal,
                              NoText, NoHeader)
    /\ UNCHANGED <<raise_exception_default, header, wea, result, sample, derived, conversion>>

\* h.data_type = d_typ, h the original or the copy.  A name the registry does
\* not know renames the data type object h holds, and with it the data type of
\* every header that holds the same object.
EitherSetDataType ==
    /\ copy.exists
    /\ \E who \in Owners, d \in CopyDataTypeInputs :
          LET r == data_type_setter(self_of(who), d)
              renamed == r.status = "ok" /\ renames_in_place(d)
              rebound == r.status = "ok" /\ ~renames_in_place(d)
          IN  Outcome(who, "data_type", r.status, r.h,
                      IF renamed /\ copy.data_type_shared
                      THEN [other_of(who) EXCEPT !.data_type.name = d.name]
                      ELSE other_of(who),
                      copy.data_type_shared /\ ~rebound, copy.metadata_shared)
    /\ UNCHANGED <<raise_exception_default, wea, result, sample, derived, conversion>>

\* h.unit = u, h the original or the copy
EitherSetUnit ==
    /\ copy.exists
    /\ \E who \in Owners, u \in CopyUnitInputs :
          LET r == unit_setter(self_of(who), u) IN
          Outcome(who, "unit", r.status, r.h, other_of(who),
                  copy.data_type_shared, copy.metadata_shared)
    /\ UNCHANGED <<raise_exception_default, wea, result, sample, derived, conversion>>

\* h.analysis_period = ap, h the original or the copy
EitherSetAnalysisPeriod ==
    /\ copy.exists
    /\ \E who \in Owners, ap \in CopyPeriodInputs :
          LET r == analysis_period_setter(self_of(who), ap) IN
          Outcome(who, "analysis_period", r.status, r.h, other_of(who),
                  copy.data_type_shared, copy.metadata_shared)
    /\ UNCHANGED <<raise_exception_default, wea, result, sample, derived, conversion>>

\* h.set_data_type_and_unit(data_type, unit), h the original or the copy:
\* binds another data type object.
EitherSetDataTypeAndUnit ==
    /\ copy.exists
    /\ \E who \in Owners, u \in CopyUnitInputs :
          LET r == set_data_type_and_unit(self_of(who),
                                          DataTypeObj("Temperature", NoneVal), u)
          IN  Outcome(who, "set_data_type_and_unit", r.status, r.h, other_of(who),
                      copy.data_type_shared /\ r.status # "ok",
                      copy.metadata_shared)
    /\ UNCHANGED <<raise_exception_default, wea, result, sample, derived, conversion>>

\* h.metadata[key] = value, h the original or the copy: the mapping the
\* metadata property returns is the header's own.
EitherSetMetadataItem ==
    /\ copy.exists
    /\ \E who \in Owners, kv \in CopyMetadataItems :
          Outcome(who, "metadata", "ok",
                  [self_of(who) EXCEPT
                     !.metadata = metadata_setitem(@, kv[1], kv[2])],
                  IF copy.metadata_shared
                  THEN [other_of(who) EXCEPT
                          !.metadata = metadata_setitem(@, kv[1], kv[2])]
                  ELSE other_of(who),
                  copy.data_type_shared, copy.metadata_shared)
    /\ UNCHANGED <<raise_exception_default, wea, result, sample, derived, conversion>>

NextHeader ==
    \/ HeaderConstruct
    \/ HeaderFromJson
    \/ HeaderSetDataType
    \/ HeaderSetUnit
    \/ HeaderSetAnalysisPeriod
    \/ HeaderSetDataTypeAndUnit
    \/ HeaderFromHeader
    \/ HeaderDuplicate
    \/ EitherSetDataType
    \/ EitherSetUnit
    \/ EitherSetAnalysisPeriod
    \/ EitherSetDataTypeAndUnit
    \/ EitherSetMetadataItem

SpecHeader == InitHeader /\ [][NextHeader]_vars

\* The unit of a header is None or a unit its data type accepts.
UnitLegal(h) == h.unit = NoneVal \/ h.unit \in units(h.data_type)

\* C3: in every state reached by constructing a Header and applying any
\* sequence of data_type, unit, analysis_period setter calls and
\* set_data_type_and_unit calls, successful or failing, the header's unit is
\* None or a legal unit of the header's current data type.
C3_UnitLegalForDataType == header.exists => UnitLegal(header)

\* C4: Header(q, u) for a data type q succeeds when u is None or a legal unit
\* of q and then holds q and u; it raises when u is declared but not legal
\* for q; no Header holding an illegal pair is constructed.
C4_ConstructValidatesUnit ==
    (h_result.op = "init" /\ h_result.data_type.isDataType) =>
        LET q == h_result.data_type
            u == h_result.unit
            legal == u = NoneVal \/ u \in units(q)
        IN  /\ legal => /\ h_result.status = "ok"
                        /\ header.exists
                        /\ header.data_type = q
                        /\ header.unit = u
            /\ ~legal => h_result.status = "ValueError" /\ ~header.exists

\* C8: parsing the text form of a Header h with Header.from_header succeeds
\* and gives a Header equal to h in data type, unit, analysis period and
\* metadata.
C8_FromHeaderRoundTrip ==
    h_result.op = "from_header" =>
        /\ h_result.status = "ok"
        /\ h_result.h = header

\* ------------------------------------------------------------------------
\* Temperature conversions (ladybug/types/temperature.py)
\* ------------------------------------------------------------------------

\* A number is a fraction [n, d] in lowest terms with d > 0, so that the
\* divisions of the conversion formulas are exact.
RECURSIVE gcd(_, _)
gcd(a, b) == IF b = 0 THEN a ELSE gcd(b, a % b)

Rat(n, d) ==
    LET g == gcd(IF n < 0 THEN -n ELSE n, d) IN [n |-> n \div g, d |-> d \div g]

\* Temperature._C_to_F: value * 9. / 5. + 32.
C_to_F(value) == Rat(value.n * 9 + 32 * 5 * value.d, 5 * value.d)

\* Temperature._C_to_K: value + 273.15
C_to_K(value) == Rat(value.n * 100 + 27315 * value.d, 100 * value.d)

\* Temperature._F_to_C: (value - 32.) * 5. / 9.
F_to_C(value) == Rat((value.n - 32 * value.d) * 5, 9 * value.d)

\* Temperature._K_to_C: value - 273.15
K_to_C(value) == Rat(value.n * 100 - 27315 * value.d, 100 * value.d)

\* Temperature._si_units and Temperature._ip_units
Temperature_si_units == {"C", "K"}
Temperature_ip_units == {"F"}

\* The conversion method self._<from>_to_<to>, applied to one value.
conversion_method(from_unit, unit, value) ==
    CASE from_unit = "C" /\ unit = "F" -> C_to_F(value)
      [] from_unit = "C" /\ unit = "K" -> C_to_K(value)
      [] from_unit = "F" /\ unit = "C" -> F_to_C(value)
      [] from_unit = "K" /\ unit = "C" -> K_to_C(value)

\* DataTypeBase._to_unit_base(base_unit, values, unit, from_unit) for the
\* Temperature type: [status, values].  The values go from from_unit to the
\* base unit and from the base unit to unit; a unit other than the base unit
\* is checked first.
to_unit_base(base_unit, values, unit, from_unit) ==
    LET temperature == DataTypeObj("Temperature", NoneVal)
        in_base == IF from_unit = base_unit THEN values
                   ELSE [k \in 1..Len(values) |->
                            conversion_method(from_unit, base_unit, values[k])]
        in_unit == IF unit = base_unit THEN in_base
                   ELSE [k \in 1..Len(values) |->
                            conversion_method(base_unit, unit, in_base[k])]
    IN  IF from_unit # base_unit /\ is_unit_acceptable(temperature, from_unit, TRUE) = "raise"
        THEN [status |-> "ValueError", values |-> <<>>]
        ELSE IF unit # base_unit /\ is_unit_acceptable(temperature, unit, TRUE) = "raise"
        THEN [status |-> "ValueError", values |-> <<>>]
        ELSE [status |-> "ok", values |-> in_unit]

\* Temperature.to_unit with from_unit and unit taken for each other.
to_unit_swapped(values, unit, from_unit) == to_unit_base("C", values, from_unit, unit)

\* Temperature.to_unit(values, unit, from_unit): [status, values].
to_unit(values, unit, from_unit) == to_unit_base("C", values, unit, from_unit)

\* Temperature.to_ip that converts whatever the unit it is given.
to_ip_always(values, from_unit) ==
    LET r == to_unit(values, "F", "C") IN
    [status |-> r.status, values |-> r.values, unit |-> "F"]

\* Temperature.to_ip(values, from_unit): [status, values, unit].
to_ip(values, from_unit) ==
    IF from_unit = "F" THEN [status |-> "ok", values |-> values, unit |-> from_unit]
    ELSE LET r == to_unit(values, "F", from_unit) IN
         [status |-> r.status, values |-> r.values, unit |-> "F"]

\* Temperature.to_si(values, from_unit): [status, values, unit].
to_si(values, from_unit) ==
    IF from_unit = "C" \/ from_unit = "K"
    THEN [status |-> "ok", values |-> values, unit |-> from_unit]
    ELSE LET r == to_unit(values, "C", from_unit) IN
         [status |-> r.status, values |-> r.values, unit |-> "C"]

(***************************************************************************)
(* SpecTemperature: the conversions of a Temperature applied to sequences  *)
(* of numbers.                                                             *)
(***************************************************************************)

\* How many values a sequence given to a conversion holds at most.
MaxValues == 2

TemperatureValues == {Rat(0, 1), Rat(100, 1), Rat(-5463, 20)}

ValuesInputs == UNION {[1..k -> TemperatureValues] : k \in 1..MaxValues}

ConversionUnits == Temperature_units \cup {"kg"}

InitTemperature ==
    HeaderAtRest /\ WeaAtRest /\ SampleAtRest /\ TemperatureAtRest /\ DefaultDeclared

\* Temperature().to_unit(values, unit, from_unit)
TemperatureToUnit ==
    /\ \E values \in ValuesInputs, unit \in ConversionUnits, from_unit \in ConversionUnits :
          LET r == to_unit(values, unit, from_unit) IN
          conversion' = [op |-> "to_unit", status |-> r.status, values |-> values,
                         unit |-> unit, from_unit |-> from_unit,
                         returned |-> r.values, returned_unit |-> NoneVal]
    /\ UNCHANGED <<raise_exception_default, header, h_result, wea, result, sample, derived, copy>>

\* Temperature().to_ip(values, from_unit)
TemperatureToIp ==
    /\ \E values \in ValuesInputs, from_unit \in ConversionUnits :
          LET r == to_ip(values, from_unit) IN
          conversion' = [op |-> "to_ip", status |-> r.status, values |-> values,
                         unit |-> NoneVal, from_unit |-> from_unit,
                         returned |-> r.values, returned_unit |-> r.unit]
    /\ UNCHANGED <<raise_exception_default, header, h_result, wea, result, sample, derived, copy>>

\* Temperature().to_si(values, from_unit)
TemperatureToSi ==
    /\ \E values \in ValuesInputs, from_unit \in ConversionUnits :
          LET r == to_si(values, from_unit) IN
          conversion' = [op |-> "to_si", status |-> r.status, values |-> values,
                         unit |-> NoneVal, from_unit |-> from_unit,
                         returned |-> r.values, returned_unit |-> r.unit]
    /\ UNCHANGED <<raise_exception_default, header, h_result, wea, result, sample, derived, copy>>

NextTemperature ==
    \/ TemperatureToUnit
    \/ TemperatureToIp
    \/ TemperatureToSi

SpecTemperature == InitTemperature /\ [][NextTemperature]_vars

\* A call of to_unit on the one value n/d, to unit from from_unit.
ToUnitOf(n, d, unit, from_unit) ==
    /\ conversion.op = "to_unit"
    /\ conversion.values = <<[n |-> n, d |-> d]>>
    /\ conversion.unit = unit
    /\ conversion.from_unit = from_unit

\* The call succeeded and returned the one value n/d.
ToUnitGave(n, d) ==
    conversion.status = "ok" /\ conversion.returned = <<[n |-> n, d |-> d]>>

\* C12 as amended: with the signature to_unit(values, unit, from_unit), where
\* unit is the unit converted to, to_unit([0], 'F', 'C') is [32.0],
\* to_unit([100], 'F', 'C') is [212.0] and to_unit([0], 'C', 'K') is [-273.15];
\* with the arguments as the claim writes them, to_unit([100], 'C', 'F') is
\* [340/9] and to_unit([0], 'K', 'C') is [273.15].
C12_ConversionExamples ==
    /\ ToUnitOf(0, 1, "F", "C") => ToUnitGave(32, 1)
    /\ ToUnitOf(100, 1, "F", "C") => ToUnitGave(212, 1)
    /\ ToUnitOf(0, 1, "C", "K") => ToUnitGave(-5463, 20)
    /\ ToUnitOf(100, 1, "C", "F") => ToUnitGave(340, 9)
    /\ ToUnitOf(0, 1, "K", "C") => ToUnitGave(5463, 20)

\* 100 degrees Fahrenheit have been converted to Celsius.
C12_Witness == ToUnitOf(100, 1, "C", "F") /\ conversion.status = "ok"

\* C12 as stated: to_unit([0], 'F', 'C') is [32.0], to_unit([100], 'C', 'F')
\* is [212.0] and to_unit([0], 'K', 'C') is [-273.15].
C12_ConversionExamplesAsStated ==
    /\ ToUnitOf(0, 1, "F", "C") => ToUnitGave(32, 1)
    /\ ToUnitOf(100, 1, "C", "F") => ToUnitGave(212, 1)
    /\ ToUnitOf(0, 1, "K", "C") => ToUnitGave(-5463, 20)

\* C16: for a unit from_unit of Temperature, to_si returns the values it was
\* given with from_unit when from_unit is 'C' or 'K' and otherwise the values
\* converted to 'C' with 'C'; to_ip returns the values it was given with 'F'
\* when from_unit is 'F' and otherwise the values converted to 'F' with 'F';
\* the unit returned is an SI unit, respectively an IP unit.
C16_ToSiToIp ==
    /\ (conversion.op = "to_si" /\ conversion.from_unit \in {"C", "F", "K"}) =>
          /\ conversion.status = "ok"
          /\ conversion.returned_unit \in {"C", "K"}
          /\ conversion.from_unit \in {"C", "K"} =>
                /\ conversion.returned = conversion.values
                /\ conversion.returned_unit = conversion.from_unit
          /\ conversion.from_unit = "F" =>
                /\ conversion.returned_unit = "C"
                /\ \A k \in 1..Len(conversion.values) :
                      LET v == conversion.values[k] IN
                      conversion.returned[k] = Rat((v.n - 32 * v.d) * 5, 9 * v.d)
    /\ (conversion.op = "to_ip" /\ conversion.from_unit \in {"C", "F", "K"}) =>
          /\ conversion.status = "ok"
          /\ conversion.returned_unit = "F"
          /\ conversion.from_unit = "F" => conversion.returned = conversion.values
          /\ conversion.from_unit = "C" =>
                \A k \in 1..Len(conversion.values) :
                    LET v == conversion.values[k] IN
                    conversion.returned[k] = Rat(v.n * 9 + 160 * v.d, 5 * v.d)
          /\ conversion.from_unit = "K" =>
                \A k \in 1..Len(conversion.values) :
                    LET v == conversion.values[k] IN
                    conversion.returned[k] =
                        Rat((v.n * 100 - 27315 * v.d) * 9 + 16000 * v.d, 500 * v.d)

\* to_ip has passed a sequence of Fahrenheit values through.
C16_Witness ==
    /\ conversion.op = "to_ip"
    /\ conversion.from_unit = "F"
    /\ conversion.status = "ok"
    /\ Len(conversion.values) = 2
    /\ conversion.returned = conversion.values

\* ------------------------------------------------------------------------
\* Python numbers, booleans and None
\* ------------------------------------------------------------------------

PyNone == [t |-> "None", v |-> 0]
PyInt(i) == [t |-> "int", v |-> i]
PyBool(b) == [t |-> "bool", v |-> IF b THEN 1 ELSE 0]

\* A key that a dictionary does not hold.
PyMissing == [t |-> "missing", v |-> 0]

\* Truth value of a Python number, boolean or None.
Truthy(x) == x.t \in {"int", "bool"} /\ x.v # 0

\* ------------------------------------------------------------------------
\* Series (DataCollection is a collaborator) and locations
\* ------------------------------------------------------------------------

\* How many leading samples of a series the model keeps explicitly.
MaxWindow == 1

\* The timesteps the model draws besides 1.
MaxTimestep == 6

Min(a, b) == IF a < b THEN a ELSE b

\* A series: its length n, the values of its first samples, and the minute of
\* the hour its first sample is stamped with.  kind tells a DataCollection
\* from a plain list.
Series(kind, n, vals, adj) == [kind |-> kind, n |-> n, vals |-> vals, adj |-> adj]

\* A location, with the time zone in minutes and the angles in 1/100 degree.
Chicago == [city |-> "Chicago Ohare Intl Ap", latitude |-> 4198, longitude |-> -8792,
            time_zone |-> -360, elevation |-> 2010]

\* A location whose UTC offset is no whole number of hours.
NewDelhi == [city |-> "New Delhi Safdarjung", latitude |-> 2858, longitude |-> 7720,
             time_zone |-> 330, elevation |-> 2160]

\* ------------------------------------------------------------------------
\* Wea (ladybug/wea.py)
\* ------------------------------------------------------------------------

\* Wea.hr_count(is_leap_year)
hr_count(is_leap_year) == IF Truthy(is_leap_year) THEN 8760 + 24 ELSE 8760

\* The annual-length check with the timestep taken as 1.
length_is_annual_hourly(n, timestep, is_leap_year) == n = hr_count(is_leap_year)

\* len(data) / timestep == hr_count(is_leap_year), a true division: for the
\* integers at hand the quotient equals the hour count exactly when the
\* length is timestep times the hour count.  timestep is not 0 here.
length_is_annual(n, timestep, is_leap_year) == n = timestep * hr_count(is_leap_year)

WeaObj(location, timestep, is_leap_year) ==
    [exists |-> TRUE, location |-> location, timestep |-> timestep,
     is_leap_year |-> is_leap_year,
     direct_normal_irradiance |-> Series("None", 0, <<>>, 0),
     diffuse_horizontal_irradiance |-> Series("None", 0, <<>>, 0)]

\* The direct_normal_irradiance setter: [status, w].
direct_normal_irradiance_setter(w, data) ==
    IF data.kind # "DataCollection" THEN [status |-> "AssertionError", w |-> w]
    ELSE IF ~length_is_annual(data.n, w.timestep, w.is_leap_year)
    THEN [status |-> "AssertionError", w |-> w]
    ELSE [status |-> "ok", w |-> [w EXCEPT !.direct_normal_irradiance = data]]

\* The diffuse_horizontal_irradiance setter: [status, w].
diffuse_horizontal_irradiance_setter(w, data) ==
    IF data.kind # "DataCollection" THEN [status |-> "AssertionError", w |-> w]
    ELSE IF ~length_is_annual(data.n, w.timestep, w.is_leap_year)
    THEN [status |-> "AssertionError", w |-> w]
    ELSE [status |-> "ok", w |-> [w EXCEPT !.diffuse_horizontal_irradiance = data]]

\* `timestep or 1`
timestep_or_1(timestep) == IF Truthy(timestep) THEN timestep.v ELSE 1

\* Wea.__init__: [status, w]; w is NoWea when the constructor raises.
Wea_init(location, dni, dhi, timestep, is_leap_year) ==
    LET w0 == WeaObj(location, timestep_or_1(timestep), is_leap_year)
        r1 == direct_normal_irradiance_setter(w0, dni)
        r2 == diffuse_horizontal_irradiance_setter(r1.w, dhi)
    IN  IF r1.status # "ok" THEN [status |-> r1.status, w |-> NoWea]
        ELSE IF r2.status # "ok" THEN [status |-> r2.status, w |-> NoWea]
        ELSE [status |-> "ok", w |-> r2.w]

\* The parameters of Header.__init__ (header.py, lines 27-28).
Header_init_params == {"data_type", "unit", "analysis_period", "metadata"}

\* Calling Header with keyword arguments: a keyword that is no parameter of
\* Header.__init__ is a TypeError, raised before the body runs.
Header_call(kwargs, data_type, unit, analysis_period) ==
    IF ~(kwargs \subseteq Header_init_params) THEN [status |-> "TypeError", h |-> NoHeader]
    ELSE Header_init(data_type, unit, analysis_period, [none |-> TRUE, d |-> {}])

\* The keywords Wea passes when it builds a Header.
wea_header_kwargs == {"analysis_period", "data_type", "unit", "location"}

\* Wea._get_empty_data_collections: [status, dnr, dhr].
get_empty_data_collections(location, timestep, is_leap_year) ==
    LET header_dnr == Header_call(wea_header_kwargs,
                                  DataTypeStr("Direct Normal Irradiance"), "W/m2",
                                  AnnualPeriod)
        header_dhr == Header_call(wea_header_kwargs,
                                  DataTypeStr("Diffuse Horizontal Irradiance"), "W/m2",
                                  AnnualPeriod)
        status == IF header_dnr.status # "ok" THEN header_dnr.status
                  ELSE header_dhr.status
    IN  [status |-> status,
         dnr |-> Series("DataCollection", 0, <<>>, 0),
         dhr |-> Series("DataCollection", 0, <<>>, 0),
         header_dnr |-> header_dnr.h,
         header_dhr |-> header_dhr.h]

\* Minute of the hour of the first datetime of Wea._get_datetimes.
adjust_time(timestep) == IF timestep = 1 THEN 30 ELSE 0

\* How many datetimes Wea._get_datetimes generates.
datetimes_count(timestep, is_leap_year) ==
    IF timestep < 0 THEN 0 ELSE hr_count(is_leap_year) * timestep

\* The error message of from_values, built before the checks: the counts
\* it states and whether it ends with the timestep hint.
err_message(direct_n, timestep, is_leap_year) ==
    [expected |-> timestep * hr_count(is_leap_year),
     provided |-> direct_n,
     hint |-> direct_n % hr_count(is_leap_year) = 0,
     hint_timestep |-> direct_n \div hr_count(is_leap_year)]

NoMessage == [expected |-> 0, provided |-> 0, hint |-> FALSE, hint_timestep |-> 0]

\* Wea.from_values: [status, w, message].  timestep is an int here.
from_values(location, dni, dhi, timestep, is_leap_year) ==
    LET direct_normal_irradiance == dni
        diffuse_horizontal_irradiance == dhi
        msg == err_message(direct_normal_irradiance.n, timestep, is_leap_year)
        n == Min(Min(direct_normal_irradiance.n, diffuse_horizontal_irradiance.n),
                 datetimes_count(timestep, is_leap_year))
        empty == get_empty_data_collections(location, timestep, is_leap_year)
        dnr == Series("DataCollection", n,
                      SubSeq(direct_normal_irradiance.vals, 1, Min(n, MaxWindow)),
                      adjust_time(timestep))
        dhr == Series("DataCollection", n,
                      SubSeq(diffuse_horizontal_irradiance.vals, 1, Min(n, MaxWindow)),
                      adjust_time(timestep))
        r == Wea_init(location, dnr, dhr, PyInt(timestep), is_leap_year)
    IN  IF timestep = 0
        THEN [status |-> "ZeroDivisionError", w |-> NoWea, message |-> NoMessage]
        ELSE IF ~length_is_annual(direct_normal_irradiance.n, timestep, is_leap_year)
        THEN [status |-> "AssertionError", w |-> NoWea, message |-> msg]
        ELSE IF ~length_is_annual(diffuse_horizontal_irradiance.n, timestep, is_leap_year)
        THEN [status |-> "AssertionError", w |-> NoWea, message |-> msg]
        ELSE IF empty.status # "ok"
        THEN [status |-> empty.status, w |-> NoWea, message |-> NoMessage]
        ELSE [status |-> r.status, w |-> r.w, message |-> NoMessage]

\* The location from_file reads from the header lines of a wea file, given
\* as the fields of Wea.header: the longitude negated, and the time zone
\* -int(field) / 15 hours, which is -4 * field minutes.
location_of_header(hdr) ==
    [city |-> hdr.place, latitude |-> hdr.latitude, longitude |-> -hdr.longitude,
     time_zone |-> -4 * hdr.time_zone, elevation |-> hdr.site_elevation]

\* Wea.from_file: [status, w, message].  A wea file is [is_file, place, location,
\* n, vals]: whether it exists, whether its first line starts with "place",
\* the location its header lines give, and its data lines.
from_file(weafile, timestep, is_leap_year) ==
    IF ~weafile.is_file \/ ~weafile.place
    THEN [status |-> "AssertionError", w |-> NoWea, message |-> NoMessage]
    ELSE from_values(weafile.location,
                     Series("list", weafile.n, weafile.vals, 0),
                     Series("list", weafile.n, weafile.vals, 0),
                     timestep, is_leap_year)

\* DataCollection.interpolate_data(timestep): timestep samples for each hour.
interpolate_data(series, timestep) ==
    Series("list", series.n * timestep, series.vals, series.adj)

\* The loop of from_epw_file over the interpolated samples: a sample is kept
\* when the sun is up at its timestamp and replaced by 0 otherwise.  alts
\* gives the sun altitude at the explicit samples.
RECURSIVE epw_sun_up_values(_, _)
epw_sun_up_values(values, alts) ==
    IF values = <<>> \/ alts = <<>> THEN <<>>
    ELSE <<IF Head(alts) > 0 THEN Head(values) ELSE 0>>
         \o epw_sun_up_values(Tail(values), Tail(alts))

\* The samples of a series left with the datetimes they have.
add_no_minute(series, minute) == series

\* dnr.datetime = dnr.datetime.add_minute(minute) for every sample dnr of a
\* series.
add_minute(series, minute) == [series EXCEPT !.adj = @ + minute]

\* Wea.from_epw_file: [status, w].  An epw is [location, direct_normal_radiation,
\* diffuse_horizontal_radiation, alts]; timestep is an int.
from_epw_file(epw, timestep) ==
    LET t1 == type_by_name_and_unit("Direct Normal Irradiance", "W/m2")
        t2 == type_by_name_and_unit("Diffuse Horizontal Irradiance", "W/m2")
        direct_norm_values == interpolate_data(epw.direct_normal_radiation, timestep)
        diffuse_horiz_values == interpolate_data(epw.diffuse_horizontal_radiation, timestep)
        empty == get_empty_data_collections(epw.location, timestep, PyBool(FALSE))
        n == Min(direct_norm_values.n, diffuse_horiz_values.n)
        interpolated_dn ==
            Series("DataCollection", n,
                   epw_sun_up_values(direct_norm_values.vals, epw.alts),
                   direct_norm_values.adj)
        interpolated_dh ==
            Series("DataCollection", n,
                   epw_sun_up_values(diffuse_horiz_values.vals, epw.alts),
                   diffuse_horiz_values.adj)
        shifted_dn == add_minute(epw.direct_normal_radiation, 30)
        shifted_dh == add_minute(epw.diffuse_horizontal_radiation, 30)
    IN  IF t1.status # "ok" THEN [status |-> t1.status, w |-> NoWea]
        ELSE IF t2.status # "ok" THEN [status |-> t2.status, w |-> NoWea]
        ELSE IF timestep # 1
        THEN IF empty.status # "ok" THEN [status |-> empty.status, w |-> NoWea]
             ELSE Wea_init(epw.location, interpolated_dn, interpolated_dh,
                           PyInt(timestep), PyBool(FALSE))
        ELSE Wea_init(epw.location, shifted_dn, shifted_dh,
                      PyInt(timestep), PyBool(FALSE))

\* What a sky model yields for the first samples of the year, which fall in
\* the night of January 1st: no irradiance.
sky_model_values(n) == [k \in 1..Min(n, MaxWindow) |-> 0]

\* Wea.from_ashrae_revised_clear_sky: [status, w].  The optical depths are
\* sequences of twelve numbers here; timestep is an int.
from_ashrae_revised_clear_sky(location, monthly_tau_beam, monthly_tau_diffuse, timestep, is_leap_year) ==
    LET empty == get_empty_data_collections(location, timestep, is_leap_year)
        n == datetimes_count(timestep, is_leap_year)
        direct_norm_rad == Series("DataCollection", n, sky_model_values(n),
                                  adjust_time(timestep))
        diffuse_horiz_rad == Series("DataCollection", n, sky_model_values(n),
                                    adjust_time(timestep))
    IN  IF empty.status # "ok" THEN [status |-> empty.status, w |-> NoWea]
        ELSE Wea_init(location, direct_norm_rad, diffuse_horiz_rad,
                      PyInt(timestep), is_leap_year)

\* Wea.from_ashrae_clear_sky: [status, w].  timestep is an int.
from_ashrae_clear_sky(location, sky_clearness, timestep, is_leap_year) ==
    LET empty == get_empty_data_collections(location, timestep, is_leap_year)
        n == datetimes_count(timestep, is_leap_year)
        direct_norm_rad == Series("DataCollection", n, sky_model_values(n),
                                  adjust_time(timestep))
        diffuse_horiz_rad == Series("DataCollection", n, sky_model_values(n),
                                    adjust_time(timestep))
    IN  IF empty.status # "ok" THEN [status |-> empty.status, w |-> NoWea]
        ELSE Wea_init(location, direct_norm_rad, diffuse_horiz_rad,
                      PyInt(timestep), is_leap_year)

\* The days of the months of a year.
days_in_month(is_leap_year) ==
    <<31, IF Truthy(is_leap_year) THEN 29 ELSE 28, 31, 30, 31, 30, 31, 31, 30, 31, 30, 31>>

\* The month in which the day of the year doy (from 0) falls, looking from
\* month m on, and the day of that month: [month, day].
RECURSIVE month_and_day(_, _, _)
month_and_day(doy, m, is_leap_year) ==
    IF m = 12 \/ doy < days_in_month(is_leap_year)[m]
    THEN [month |-> m, day |-> doy + 1]
    ELSE month_and_day(doy - days_in_month(is_leap_year)[m], m + 1, is_leap_year)

\* DateTime.from_moy(moy, is_leap_year): the calendar date and time of a
\* minute of the year.
from_moy(moy, is_leap_year) ==
    LET md == month_and_day(moy \div 1440, 1, is_leap_year) IN
    [month |-> md.month, day |-> md.day, hour |-> (moy % 1440) \div 60,
     minute |-> moy % 60]

\* The minute of the year sample count of a series is stamped with, when the
\* series holds timestep samples an hour in the order of Wea._get_datetimes.
sample_moy(series, timestep, count) == (60 * count) \div timestep + series.adj

\* A list of climate data of length n whose value at index i is first + i:
\* a value tells the index it was read from.
ClimateList(n, first) == [n |-> n, first |-> first]

\* Indexing a list that gives IndexError for every index below 0.
getitem_from_start(list, i) ==
    IF i < 0 \/ i >= list.n
    THEN [status |-> "IndexError", index |-> i, value |-> 0]
    ELSE [status |-> "ok", index |-> i, value |-> list.first + i]

\* list[i] in Python: [status, index, value].  An index below 0 counts from
\* the end of the list.
getitem(list, i) ==
    LET j == IF i < 0 THEN i + list.n ELSE i IN
    IF j < 0 \/ j >= list.n
    THEN [status |-> "IndexError", index |-> j, value |-> 0]
    ELSE [status |-> "ok", index |-> j, value |-> list.first + j]

\* Three samples back, whatever the timestep.
three_samples(timestep) == 3

\* 3 * timestep: how many samples three hours are.
three_hours(timestep) == 3 * timestep

\* The iterations of the loop of from_zhang_huang_solar the model follows:
\* the first two, those around three hours into the year, and the last.
followed_counts(n, timestep) ==
    {count \in {0, 1, three_hours(timestep) - 1, three_hours(timestep),
                three_hours(timestep) + 1, n - 1} : 0 <= count /\ count < n}

\* What from_zhang_huang_solar has when it raises before its loop is over.
zhang_huang_failed(status) ==
    [status |-> status, w |-> NoWea, checked |-> FALSE, fed |-> FALSE,
     entries |-> [altitudes |-> 0, doys |-> 0, dry_bulb_t3_hrs |-> 0],
     dry_bulb_t3_hrs |-> <<>>, moys |-> <<>>]

\* Wea.from_zhang_huang_solar: [status, w, checked, fed, entries,
\* dry_bulb_t3_hrs, moys].  checked: the input checks passed; fed: the
\* regression was called; entries: the lengths of the three lists it was
\* called with; dry_bulb_t3_hrs and moys: for the iterations followed, the
\* read of dry_bulb_temperature and the minute of the year of the datetime the
\* altitude and the day of the year are computed for.  An atmospheric
\* pressure is [none, n]; timestep is an int.
from_zhang_huang_solar(location, cloud_cover, relative_humidity, dry_bulb_temperature, wind_speed, atmospheric_pressure, timestep, is_leap_year) ==
    LET n == datetimes_count(timestep, is_leap_year)
        counts == followed_counts(n, timestep)
        reads == [count \in counts |->
                     getitem(dry_bulb_temperature, count - three_hours(timestep))]
        moys == [count \in counts |-> (60 * count) \div timestep + adjust_time(timestep)]
        empty == get_empty_data_collections(location, timestep, is_leap_year)
        direct_norm_rad == Series("DataCollection", n, sky_model_values(n),
                                  adjust_time(timestep))
        diffuse_horiz_rad == Series("DataCollection", n, sky_model_values(n),
                                    adjust_time(timestep))
        r == Wea_init(location, direct_norm_rad, diffuse_horiz_rad,
                      PyInt(timestep), is_leap_year)
        looped(status, w) ==
            [status |-> status, w |-> w, checked |-> TRUE, fed |-> TRUE,
             entries |-> [altitudes |-> n, doys |-> n, dry_bulb_t3_hrs |-> n],
             dry_bulb_t3_hrs |-> reads, moys |-> moys]
    IN  IF ~(/\ cloud_cover.n = relative_humidity.n
             /\ relative_humidity.n = dry_bulb_temperature.n
             /\ dry_bulb_temperature.n = wind_speed.n)
        THEN zhang_huang_failed("AssertionError")
        ELSE IF timestep = 0 THEN zhang_huang_failed("ZeroDivisionError")
        ELSE IF ~length_is_annual(cloud_cover.n, timestep, is_leap_year)
        THEN zhang_huang_failed("AssertionError")
        ELSE IF ~atmospheric_pressure.none /\ atmospheric_pressure.n # cloud_cover.n
        THEN zhang_huang_failed("AssertionError")
        ELSE IF \E count \in counts : reads[count].status # "ok"
        THEN [zhang_huang_failed("IndexError") EXCEPT !.checked = TRUE]
        ELSE IF empty.status # "ok" THEN looped(empty.status, NoWea)
        ELSE looped(r.status, r.w)

\* The messages of check_missing.
NoOpticalData == "Stat file contains no optical data."
MissingOpticalDepth == "Missing optical depth data for {} at month {}"

\* No message, and the two messages of check_missing: [text, data_name, month].
NoStatMessage == [text |-> NoneVal, data_name |-> NoneVal, month |-> -1]
StatMessage(text, data_name, month) ==
    [text |-> text, data_name |-> data_name, month |-> month]

\* check_missing(opt_data, data_name) of Wea.from_stat_file: [status, message].
\* enumerate counts the entries from 0.
check_missing(opt_data, data_name) ==
    LET missing == {i \in 1..Len(opt_data) : opt_data[i] = PyNone}
        first == CHOOSE i \in missing : \A j \in missing : i <= j
    IN  IF opt_data = <<>>
        THEN [status |-> "ValueError",
              message |-> StatMessage(NoOpticalData, NoneVal, -1)]
        ELSE IF missing # {}
        THEN [status |-> "ValueError",
              message |-> StatMessage(MissingOpticalDepth, data_name, first - 1)]
        ELSE [status |-> "ok", message |-> NoStatMessage]

\* Wea.from_stat_file with the diffuse optical depths checked first.
from_stat_file_diffuse_first(stat, timestep, is_leap_year) ==
    LET beam == check_missing(stat.monthly_tau_beam, "monthly_tau_beam")
        diffuse == check_missing(stat.monthly_tau_diffuse, "monthly_tau_diffuse")
    IN  IF diffuse.status # "ok"
        THEN [status |-> diffuse.status, w |-> NoWea, message |-> diffuse.message]
        ELSE [status |-> beam.status, w |-> NoWea, message |-> beam.message]

\* Wea.from_stat_file: [status, w, message].  A stat is [location,
\* monthly_tau_beam, monthly_tau_diffuse].
from_stat_file(stat, timestep, is_leap_year) ==
    LET beam == check_missing(stat.monthly_tau_beam, "monthly_tau_beam")
        diffuse == check_missing(stat.monthly_tau_diffuse, "monthly_tau_diffuse")
        r == from_ashrae_revised_clear_sky(stat.location, stat.monthly_tau_beam,
                                           stat.monthly_tau_diffuse, timestep,
                                           is_leap_year)
    IN  IF beam.status # "ok"
        THEN [status |-> beam.status, w |-> NoWea, message |-> beam.message]
        ELSE IF diffuse.status # "ok"
        THEN [status |-> diffuse.status, w |-> NoWea, message |-> diffuse.message]
        ELSE [status |-> r.status, w |-> r.w, message |-> NoStatMessage]

\* Location.to_json / Location.from_json and DataCollection.to_json /
\* DataCollection.from_json (collaborators): a tagged copy of the fields.
Location_to_json(loc) == [type |-> "Location", value |-> loc]
Location_from_json(j) == j.value
DataCollection_to_json(series) ==
    [type |-> "DataCollection", n |-> series.n, vals |-> series.vals, adj |-> series.adj]
DataCollection_from_json(j) == Series("DataCollection", j.n, j.vals, j.adj)

\* The keys of the structured representation.
required_keys == {"location", "direct_normal_irradiance", "diffuse_horizontal_irradiance"}
optional_keys == {"timestep", "is_leap_year"}

\* A dictionary given to from_json: the keys it holds and their values; the
\* value of an optional key it does not hold is PyMissing.
JsonDict(keys, location, dni, dhi, timestep, is_leap_year) ==
    [keys |-> keys, location |-> location, direct_normal_irradiance |-> dni,
     diffuse_horizontal_irradiance |-> dhi,
     timestep |-> IF "timestep" \in keys THEN timestep ELSE PyMissing,
     is_leap_year |-> IF "is_leap_year" \in keys THEN is_leap_year ELSE PyMissing]

\* Wea.to_json with the timestep written as given to the constructor's default.
to_json_hourly(w) ==
    JsonDict(required_keys \cup optional_keys,
             Location_to_json(w.location),
             DataCollection_to_json(w.direct_normal_irradiance),
             DataCollection_to_json(w.diffuse_horizontal_irradiance),
             PyInt(1), w.is_leap_year)

\* Wea.to_json
to_json(w) ==
    JsonDict(required_keys \cup optional_keys,
             Location_to_json(w.location),
             DataCollection_to_json(w.direct_normal_irradiance),
             DataCollection_to_json(w.diffuse_horizontal_irradiance),
             PyInt(w.timestep), w.is_leap_year)

\* Wea.from_json: [status, w, data]; data is the dictionary as the call
\* leaves it (an optional key it did not hold now holds None).
from_json(data) ==
    LET filled == [data EXCEPT
                     !.keys = @ \cup optional_keys,
                     !.timestep = IF "timestep" \in data.keys THEN @ ELSE PyNone,
                     !.is_leap_year = IF "is_leap_year" \in data.keys THEN @ ELSE PyNone]
        r == Wea_init(Location_from_json(data.location),
                      DataCollection_from_json(data.direct_normal_irradiance),
                      DataCollection_from_json(data.diffuse_horizontal_irradiance),
                      filled.timestep, filled.is_leap_year)
    IN  IF ~(required_keys \subseteq data.keys)
        THEN [status |-> "AssertionError", w |-> NoWea, data |-> data]
        ELSE [status |-> r.status, w |-> r.w, data |-> filled]

\* int(x / y) for an integer quotient written with %d: towards zero.
TruncDiv(a, b) == IF a >= 0 THEN a \div b ELSE -((-a) \div b)

\* Wea.header: the fields of the six header lines.
Wea_header(w) ==
    [place |-> w.location.city,
     latitude |-> w.location.latitude,
     longitude |-> -w.location.longitude,
     time_zone |-> TruncDiv(-w.location.time_zone * 15, 60),
     site_elevation |-> w.location.elevation,
     weather_data_file_units |-> 1]

\* A file path is a sequence of tokens, the last one its suffix if it has one.
\* file_path.lower().endswith('.wea')
ends_with_wea(file_path) ==
    file_path # <<>> /\ file_path[Len(file_path)] \in {".wea", ".WEA"}

\* file_path[:-4] + '.hrs'
hrs_file_path(file_path) == SubSeq(file_path, 1, Len(file_path) - 1) \o <<".hrs">>

\* series[count] of a Python sequence of length n: whether it raises
\* IndexError, and the sample it reads (a negative index counts from the end).
index_in_range(count, n) == -n <= count /\ count < n
sample_index(count, n) == IF count < 0 THEN n + count ELSE count

\* Wea.get_irradiance_values_for_hoy(hoy): the index it reads in both series.
hoy_count(w, hoy) == hoy * w.timestep

\* The loop of Wea.write over the requested hoys, from position i on: lines
\* holds the sample index of each data line written so far and dt_bound tells
\* whether the local variable dt has been assigned.  [status, lines].
RECURSIVE write_requested(_, _, _, _, _)
write_requested(w, hoys, i, lines, dt_bound) ==
    IF i > Len(hoys) THEN [status |-> "ok", lines |-> lines]
    ELSE LET count == hoy_count(w, hoys[i])
             n == w.direct_normal_irradiance.n
         IN  IF ~index_in_range(count, n)
             THEN IF ~dt_bound
                  THEN [status |-> "UnboundLocalError", lines |-> lines]
                  ELSE write_requested(w, hoys, i + 1, lines, dt_bound)
             ELSE write_requested(w, hoys, i + 1,
                                  Append(lines, sample_index(count, n)), TRUE)

NotWritten == [written |-> FALSE, path |-> <<>>, full |-> FALSE, lines |-> <<>>]

\* The hours Wea.write lists in the .hrs file.
hrs_listed(hoys, lines) == hoys

\* Wea.write(file_path, hoys, write_hours): [status, file_path, wea_file,
\* hrs_file].  hoys is [none, seq]; a file is [written, path, full, lines],
\* full telling that it holds a line for every sample of the year.
write(w, file_path, hoys, write_hours) ==
    LET path == IF ends_with_wea(file_path) THEN file_path ELSE file_path \o <<".wea">>
        full_wea == hoys.none \/ hoys.seq = <<>>
        r == IF full_wea THEN [status |-> "ok", lines |-> <<>>]
             ELSE write_requested(w, hoys.seq, 1, <<>>, FALSE)
    IN  IF r.status # "ok"
        THEN [status |-> r.status, file_path |-> <<>>, header |-> Wea_header(w),
              wea_file |-> NotWritten, hrs_file |-> NotWritten]
        ELSE [status |-> "ok", file_path |-> path, header |-> Wea_header(w),
              wea_file |-> [written |-> TRUE, path |-> path, full |-> full_wea,
                            lines |-> r.lines],
              hrs_file |-> IF write_hours
                           THEN [written |-> TRUE, path |-> hrs_file_path(path),
                                 full |-> full_wea,
                                 lines |-> IF full_wea THEN <<>>
                                           ELSE hrs_listed(hoys.seq, r.lines)]
                           ELSE NotWritten]

\* ------------------------------------------------------------------------
\* Spec: one Wea and the operations applied to it
\* ------------------------------------------------------------------------

\* How many hours of the year a write request lists at most.
MaxHoys == 2

TimestepChoices == {1, MaxTimestep}

LeapInputs == {PyBool(FALSE), PyBool(TRUE)}

SampleValues == {0, 5}

\* A series or a list of these lengths: every annual length of the
\* timesteps drawn, no sample, and one sample short or long of a year.
LengthInputs ==
    {t * hr_count(l) : t \in TimestepChoices, l \in LeapInputs}
    \cup {0, hr_count(PyBool(FALSE)) - 1, hr_count(PyBool(FALSE)) + 1}

WindowInputs(n, values) == [1..Min(n, MaxWindow) -> values]

SeriesInputs(kind) ==
    UNION {{Series(kind, n, v, 0) : v \in WindowInputs(n, SampleValues)} :
           n \in LengthInputs}

\* The data collections a caller hands to the constructor and to the
\* setters: stamped from the start of the hour, or, holding zeros, from the
\* middle of it.
DataCollectionInputs ==
    SeriesInputs("DataCollection")
    \cup {Series("DataCollection", n, [i \in 1..Min(n, MaxWindow) |-> 0], 30) :
          n \in LengthInputs}

\* The hoys a write request draws from: the first hour and an hour no year
\* has.
HoyInputs == {0, hr_count(PyBool(TRUE)) + 216}

HoySeqs == UNION {[1..k -> HoyInputs] : k \in 0..MaxHoys}

HoysInputs == {[none |-> TRUE, seq |-> <<>>]} \cup {[none |-> FALSE, seq |-> q] : q \in HoySeqs}

PathInputs == {<<"chicago", ".wea">>, <<"chicago">>}

SunAltitudes == {-30, 0, 30}

\* The diffuse values of a weather file.
DiffuseValues == {3}

EpwInputs ==
    {[location |-> Chicago,
      direct_normal_radiation |-> Series("DataCollection", hr_count(PyBool(FALSE)), v, 0),
      diffuse_horizontal_radiation |-> Series("DataCollection", hr_count(PyBool(FALSE)), d, 0),
      alts |-> a] :
        v \in WindowInputs(hr_count(PyBool(FALSE)), SampleValues \ {0}),
        d \in WindowInputs(hr_count(PyBool(FALSE)), DiffuseValues),
        a \in WindowInputs(hr_count(PyBool(FALSE)), SunAltitudes)}

WeaFileInputs ==
    {[is_file |-> f, place |-> p, location |-> Chicago, n |-> n,
      vals |-> [k \in 1..Min(n, MaxWindow) |-> 5]] :
        f \in BOOLEAN, p \in BOOLEAN, n \in LengthInputs}

JsonInputs ==
    {JsonDict(required_keys \cup ok, Location_to_json(Chicago),
              DataCollection_to_json(d), DataCollection_to_json(d), t, l) :
        ok \in SUBSET optional_keys,
        d \in SeriesInputs("DataCollection"),
        t \in {PyNone, PyInt(0)} \cup {PyInt(c) : c \in TimestepChoices},
        l \in {PyNone} \cup LeapInputs}
    \cup {JsonDict(required_keys \ {"location"}, Location_to_json(Chicago),
                   DataCollection_to_json(d), DataCollection_to_json(d),
                   PyInt(1), PyBool(FALSE)) :
            d \in SeriesInputs("DataCollection")}

\* Twelve monthly optical depths (in thousandths), None in the months of nulls.
MonthlyTau(nulls) == [m \in 1..12 |-> IF m \in nulls THEN PyNone ELSE PyInt(400)]

\* The optical depths of a stat file: none at all, or twelve with at most
\* two of them missing.
TauInputs ==
    {<<>>} \cup {MonthlyTau(nulls) : nulls \in {s \in SUBSET (1..12) : Cardinality(s) <= 2}}

StatInputs ==
    {[location |-> Chicago, monthly_tau_beam |-> b, monthly_tau_diffuse |-> d] :
        b \in TauInputs,
        d \in {<<>>} \cup {MonthlyTau(nulls) : nulls \in {{}, {1}, {3}, {12}}}}

\* The sky clearness factors drawn, in hundredths.
ClearnessInputs == {100, 120}

\* The first value of a dry bulb temperature list.
DryBulbInputs == {-10, 20}

\* atmospheric_pressure: None, or a list of any of the lengths.
PressureInputs ==
    {[none |-> TRUE, n |-> 0]} \cup {[none |-> FALSE, n |-> n] : n \in LengthInputs}

\* The locations a Wea is constructed for.
LocationInputs == {Chicago, NewDelhi}

Init ==
    HeaderAtRest /\ WeaAtRest /\ SampleAtRest /\ TemperatureAtRest /\ DefaultDeclared

\* A behaviour makes one construction attempt: no Wea exists and nothing has
\* been called yet.
NothingConstructed == ~wea.exists /\ result = NoResult

\* Wea(location, direct_normal_irradiance, diffuse_horizontal_irradiance,
\*     timestep, is_leap_year)
WeaConstruct ==
    /\ NothingConstructed
    /\ \E dni \in DataCollectionInputs \cup {Series("list", 0, <<>>, 0)},
          dhi \in DataCollectionInputs,
          t \in {PyNone, PyInt(0)} \cup {PyInt(c) : c \in TimestepChoices},
          l \in {PyNone} \cup LeapInputs, location \in LocationInputs :
          LET r == Wea_init(location, dni, dhi, t, l) IN
          /\ wea' = r.w
          /\ result' = [op |-> "init", status |-> r.status, timestep |-> t,
                        is_leap_year |-> l, direct_n |-> dni.n, diffuse_n |-> dhi.n]
    /\ UNCHANGED <<raise_exception_default, header, h_result, sample, derived, copy, conversion>>

\* Wea.from_values(location, direct_normal_irradiance,
\*                 diffuse_horizontal_irradiance, timestep, is_leap_year)
WeaFromValues ==
    /\ NothingConstructed
    /\ \E dni \in SeriesInputs("list"), dhi \in SeriesInputs("list"),
          t \in {0} \cup TimestepChoices, l \in LeapInputs :
          LET r == from_values(Chicago, dni, dhi, t, l) IN
          /\ wea' = r.w
          /\ result' = [op |-> "from_values", status |-> r.status, timestep |-> t,
                        is_leap_year |-> l, direct_n |-> dni.n, diffuse_n |-> dhi.n,
                        direct_vals |-> dni.vals, diffuse_vals |-> dhi.vals,
                        message |-> r.message]
    /\ UNCHANGED <<raise_exception_default, header, h_result, sample, derived, copy, conversion>>

\* Wea.from_file(weafile, timestep, is_leap_year)
WeaFromFile ==
    /\ NothingConstructed
    /\ \E f \in WeaFileInputs, t \in TimestepChoices, l \in LeapInputs :
          LET r == from_file(f, t, l) IN
          /\ wea' = r.w
          /\ result' = [op |-> "from_file", status |-> r.status, timestep |-> t,
                        is_leap_year |-> l, weafile |-> f, message |-> r.message]
    /\ UNCHANGED <<raise_exception_default, header, h_result, sample, derived, copy, conversion>>

\* Wea.from_json(data)
WeaFromJson ==
    /\ NothingConstructed
    /\ \E x \in JsonInputs :
          LET r == from_json(x) IN
          /\ wea' = r.w
          /\ result' = [op |-> "from_json", status |-> r.status, x |-> x,
                        data |-> r.data]
    /\ UNCHANGED <<raise_exception_default, header, h_result, sample, derived, copy, conversion>>

\* Wea.from_epw_file(epwfile, timestep)
WeaFromEpwFile ==
    /\ NothingConstructed
    /\ \E epw \in EpwInputs, t \in TimestepChoices :
          LET r == from_epw_file(epw, t) IN
          /\ wea' = r.w
          /\ result' = [op |-> "from_epw_file", status |-> r.status, timestep |-> t,
                        epw |-> epw]
    /\ UNCHANGED <<raise_exception_default, header, h_result, sample, derived, copy, conversion>>

\* Wea.from_stat_file(statfile, timestep, is_leap_year)
WeaFromStatFile ==
    /\ NothingConstructed
    /\ \E stat \in StatInputs, t \in TimestepChoices, l \in LeapInputs :
          LET r == from_stat_file(stat, t, l) IN
          /\ wea' = r.w
          /\ result' = [op |-> "from_stat_file", status |-> r.status, timestep |-> t,
                        is_leap_year |-> l, stat |-> stat, message |-> r.message]
    /\ UNCHANGED <<raise_exception_default, header, h_result, sample, derived, copy, conversion>>

\* Wea.from_ashrae_clear_sky(location, sky_clearness, timestep, is_leap_year)
WeaFromAshraeClearSky ==
    /\ NothingConstructed
    /\ \E sky_clearness \in ClearnessInputs, t \in TimestepChoices, l \in LeapInputs :
          LET r == from_ashrae_clear_sky(Chicago, sky_clearness, t, l) IN
          /\ wea' = r.w
          /\ result' = [op |-> "from_ashrae_clear_sky", status |-> r.status,
                        timestep |-> t, is_leap_year |-> l,
                        sky_clearness |-> sky_clearness]
    /\ UNCHANGED <<raise_exception_default, header, h_result, sample, derived, copy, conversion>>

\* Wea.from_zhang_huang_solar(location, cloud_cover, relative_humidity,
\*     dry_bulb_temperature, wind_speed, atmospheric_pressure, timestep,
\*     is_leap_year)
WeaFromZhangHuangSolar ==
    /\ NothingConstructed
    /\ \E n \in LengthInputs, first \in DryBulbInputs, other_n \in LengthInputs,
          pressure \in PressureInputs, t \in {0} \cup TimestepChoices,
          l \in LeapInputs :
          /\ other_n \in {n, hr_count(PyBool(FALSE))}
          /\ pressure.n \in {0, n}
          /\ LET dry_bulb_temperature == ClimateList(n, first)
                 r == from_zhang_huang_solar(Chicago, ClimateList(n, 0),
                                             ClimateList(other_n, 0),
                                             dry_bulb_temperature,
                                             ClimateList(n, 0), pressure, t, l)
             IN  /\ wea' = r.w
                 /\ result' = [op |-> "from_zhang_huang_solar", status |-> r.status,
                               timestep |-> t, is_leap_year |-> l,
                               dry_bulb_temperature |-> dry_bulb_temperature,
                               checked |-> r.checked, fed |-> r.fed,
                               entries |-> r.entries,
                               dry_bulb_t3_hrs |-> r.dry_bulb_t3_hrs,
                               moys |-> r.moys]
    /\ UNCHANGED <<raise_exception_default, header, h_result, sample, derived, copy, conversion>>

\* Wea._get_empty_data_collections(location, timestep, is_leap_year), the
\* static method every construction path but the constructor, from_json and
\* the hourly from_epw_file goes through.
WeaGetEmptyDataCollections ==
    /\ NothingConstructed
    /\ \E t \in TimestepChoices, l \in LeapInputs :
          LET r == get_empty_data_collections(Chicago, t, l) IN
          result' = [op |-> "_get_empty_data_collections", status |-> r.status,
                     timestep |-> t, is_leap_year |-> l,
                     direct_norm_rad |-> r.dnr, diffuse_horiz_rad |-> r.dhr,
                     header_dnr |-> r.header_dnr, header_dhr |-> r.header_dhr]
    /\ UNCHANGED <<raise_exception_default, header, h_result, wea, sample, derived, copy, conversion>>

\* wea.write(file_path) followed by Wea.from_file(file_path, timestep,
\* is_leap_year) with the timestep and the leap flag of the Wea written
WeaWriteThenFromFile ==
    /\ wea.exists
    /\ LET written == write(wea, <<"chicago", ".wea">>, [none |-> TRUE, seq |-> <<>>],
                            FALSE)
           weafile == [is_file |-> written.wea_file.written, place |-> TRUE,
                       location |-> location_of_header(written.header),
                       n |-> wea.direct_normal_irradiance.n,
                       vals |-> wea.direct_normal_irradiance.vals]
           r == from_file(weafile, wea.timestep, wea.is_leap_year)
       IN  result' = [op |-> "write_from_file", status |-> r.status,
                      header |-> written.header, location |-> weafile.location,
                      restored |-> r.w]
    /\ UNCHANGED <<raise_exception_default, header, h_result, wea, sample, derived, copy, conversion>>

\* wea.direct_normal_irradiance = data
WeaSetDirectNormal ==
    /\ wea.exists
    /\ \E data \in DataCollectionInputs \cup {Series("list", 0, <<>>, 0)} :
          LET r == direct_normal_irradiance_setter(wea, data) IN
          /\ wea' = r.w
          /\ result' = [op |-> "direct_normal_irradiance", status |-> r.status,
                        data |-> data, before |-> wea]
    /\ UNCHANGED <<raise_exception_default, header, h_result, sample, derived, copy, conversion>>

\* wea.diffuse_horizontal_irradiance = data
WeaSetDiffuseHorizontal ==
    /\ wea.exists
    /\ \E data \in DataCollectionInputs \cup {Series("list", 0, <<>>, 0)} :
          LET r == diffuse_horizontal_irradiance_setter(wea, data) IN
          /\ wea' = r.w
          /\ result' = [op |-> "diffuse_horizontal_irradiance", status |-> r.status,
                        data |-> data, before |-> wea]
    /\ UNCHANGED <<raise_exception_default, header, h_result, sample, derived, copy, conversion>>

\* Wea.from_json(wea.to_json()).to_json()
WeaJsonRoundTrip ==
    /\ wea.exists
    /\ LET x == to_json(wea)
           r == from_json(x) IN
       result' = [op |-> "to_json", status |-> r.status, x |-> x,
                  back |-> IF r.status = "ok" THEN to_json(r.w) ELSE x]
    /\ UNCHANGED <<raise_exception_default, header, h_result, wea, sample, derived, copy, conversion>>

\* wea.write(file_path, hoys, write_hours)
WeaWrite ==
    /\ wea.exists
    /\ \E file_path \in PathInputs, hoys \in HoysInputs, write_hours \in BOOLEAN :
          LET r == write(wea, file_path, hoys, write_hours) IN
          result' = [op |-> "write", status |-> r.status, file_path |-> file_path,
                     hoys |-> hoys, write_hours |-> write_hours,
                     returned |-> r.file_path, header |-> r.header,
                     wea_file |-> r.wea_file, hrs_file |-> r.hrs_file]
    /\ UNCHANGED <<raise_exception_default, header, h_result, wea, sample, derived, copy, conversion>>

Next ==
    \/ WeaConstruct
    \/ WeaFromValues
    \/ WeaFromFile
    \/ WeaFromJson
    \/ WeaFromEpwFile
    \/ WeaFromStatFile
    \/ WeaFromAshraeClearSky
    \/ WeaGetEmptyDataCollections
    \/ WeaWriteThenFromFile
    \/ WeaSetDirectNormal
    \/ WeaSetDiffuseHorizontal
    \/ WeaJsonRoundTrip
    \/ WeaWrite

Spec == Init /\ [][Next]_vars

\* Wea.from_zhang_huang_solar on its own: every call of it ends in an
\* exception, so no other operation ever follows one.
NextZhangHuang ==
    \/ WeaFromZhangHuangSolar

SpecZhangHuang == Init /\ [][NextZhangHuang]_vars

(***************************************************************************)
(* Irradiance on a surface, for one sample of a Wea.  Angles are whole     *)
(* degrees in multiples of 30, sines and cosines are in thousandths, a     *)
(* reflectance is in hundredths, the two stored irradiances are whole      *)
(* W/m2 and every computed irradiance counts 1e-8 W/m2, so that the        *)
(* products of the code are exact integers.                                *)
(***************************************************************************)

\* math.sin(math.radians(d)) in thousandths, -90 <= d <= 90.
sin(d) ==
    CASE d = 0 -> 0
      [] d = 30 -> 500
      [] d = 60 -> 866
      [] d = 90 -> 1000
      [] d = -30 -> -500
      [] d = -60 -> -866
      [] d = -90 -> -1000

\* math.cos(math.radians(d)) in thousandths, 0 <= d <= 180.
cos(d) == sin(90 - d)

\* abs
abs(x) == IF x < 0 THEN -x ELSE x

\* The angle between pol2cart(sun azimuth, sun altitude) and
\* pol2cart(azimuth, altitude) in degrees, for azimuths 0 and 180: both vectors
\* lie in the meridian plane, where a direction is one angle from the south
\* horizon over the zenith to the north horizon.
vec_angle(sun_azimuth, sun_altitude, azimuth, altitude) ==
    LET in_plane(az, alt) == IF az = 180 THEN alt ELSE 180 - alt
        apart == abs(in_plane(sun_azimuth, sun_altitude) - in_plane(azimuth, altitude))
    IN  IF apart > 180 THEN 360 - apart ELSE apart

\* The text inputs of ground_reflectance, in hundredths.
albedos ==
    ("urban" :> 18) @@ ("grass" :> 20) @@ ("fresh grass" :> 26) @@ ("soil" :> 17) @@
    ("sand" :> 40) @@ ("snow" :> 65) @@ ("fresh snow" :> 75) @@ ("asphalt" :> 12) @@
    ("concrete" :> 30) @@ ("sea" :> 6)

\* A ground_reflectance argument: a number, or a string.
Reflectance(num) == [str |-> NoneVal, num |-> num]
ReflectanceName(str) == [str |-> str, num |-> 0]

\* The first statement of directional_irradiance: [status, value].
ground_reflectance_value(ground_reflectance) ==
    IF ground_reflectance.str # NoneVal /\ ground_reflectance.str \in DOMAIN albedos
    THEN [status |-> "ok", value |-> albedos[ground_reflectance.str]]
    ELSE IF ground_reflectance.str # NoneVal
    THEN [status |-> "ValueError", value |-> 0]
    ELSE [status |-> "ok", value |-> ground_reflectance.num]

\* The direct irradiance on the surface computed without asking whether
\* the sun is up.
srf_dir_any_sun(dnr, sun_altitude, angle) ==
    IF angle < 90 THEN dnr * cos(angle) * 100000 ELSE 0

\* srf_dir of directional_irradiance: the direct irradiance on a surface
\* whose normal is angle degrees from the sun.
srf_dir(dnr, sun_altitude, angle) ==
    IF sun_altitude > 0 /\ angle < 90 THEN dnr * cos(angle) * 100000 ELSE 0

\* Wea.directional_irradiance for the sample s:
\* [status, altitude, azimuth, isotrophic, total, direct, diffuse, reflected].
directional_irradiance(s, altitude, azimuth, ground_reflectance, isotrophic) ==
    LET refl == ground_reflectance_value(ground_reflectance)
        dnr == s.dnr
        dhr == s.dhr
        angle == vec_angle(s.sun_azimuth, s.sun_altitude, azimuth, altitude)
        direct == srf_dir(dnr, s.sun_altitude, angle)
        srf_dif == dhr * ((sin(altitude) \div 2) + 500) * 100000
        e_glob == dhr * 1000 + dnr * cos(90 - s.sun_altitude)
        srf_ref == e_glob * refl.value * (500 - (sin(altitude) \div 2))
        failed(status) == [status |-> status, altitude |-> altitude,
                           azimuth |-> azimuth, isotrophic |-> isotrophic, total |-> 0, direct |-> 0,
                           diffuse |-> 0, reflected |-> 0]
    IN  IF refl.status # "ok" THEN failed(refl.status)
        ELSE IF ~isotrophic THEN failed("AttributeError")
        ELSE [status |-> "ok", altitude |-> altitude, azimuth |-> azimuth,
              isotrophic |-> isotrophic,
              total |-> direct + srf_dif + srf_ref, direct |-> direct,
              diffuse |-> srf_dif, reflected |-> srf_ref]

\* Wea.global_horizontal_irradiance for the sample s: [status, value].
global_horizontal_irradiance(s) ==
    LET header_ghr == Header_call(wea_header_kwargs,
                                  DataTypeStr("Global Horizontal Irradiance"), "W/m2",
                                  AnnualPeriod)
        glob_h == s.dhr * 100000000 + s.dnr * sin(s.sun_altitude) * 100000
    IN  IF header_ghr.status # "ok" THEN [status |-> header_ghr.status, value |-> 0]
        ELSE [status |-> "ok", value |-> glob_h]

\* Wea.direct_horizontal_irradiance for the sample s: [status, value].
direct_horizontal_irradiance(s) ==
    LET header_dhr == Header_call(wea_header_kwargs,
                                  DataTypeStr("Direct Horizontal Irradiance"), "W/m2",
                                  AnnualPeriod)
        dir_h == s.dnr * sin(s.sun_altitude) * 100000
    IN  IF header_dhr.status # "ok" THEN [status |-> header_dhr.status, value |-> 0]
        ELSE [status |-> "ok", value |-> dir_h]

(***************************************************************************)
(* SpecSample: one sample of a Wea with the sun position at its timestamp, *)
(* and the irradiance methods applied to it.                               *)
(***************************************************************************)

IrradianceInputs == {0, 4}
DiffuseInputs == {0, 2}
SunAltitudeInputs == {-30, 0, 30, 60, 90}
MeridianAzimuths == {0, 180}
SurfaceAltitudeInputs == {90, 30, 0, -90}
ReflectanceInputs == {Reflectance(20), ReflectanceName("snow"), ReflectanceName("mud")}

SampleInputs ==
    [exists : {TRUE}, dnr : IrradianceInputs, dhr : DiffuseInputs,
     sun_altitude : SunAltitudeInputs, sun_azimuth : MeridianAzimuths]

InitSample ==
    /\ HeaderAtRest
    /\ WeaAtRest
    /\ TemperatureAtRest
    /\ sample \in SampleInputs
    /\ derived = NoDerived
    /\ DefaultDeclared

\* wea.directional_irradiance(altitude, azimuth, ground_reflectance, isotrophic)
SampleDirectionalIrradiance ==
    /\ sample.exists
    /\ \E altitude \in SurfaceAltitudeInputs, azimuth \in MeridianAzimuths,
          ground_reflectance \in ReflectanceInputs, isotrophic \in BOOLEAN :
          derived' = [derived EXCEPT !.directional_irradiance =
                          directional_irradiance(sample, altitude, azimuth,
                                                 ground_reflectance, isotrophic)]
    /\ UNCHANGED <<raise_exception_default, header, h_result, wea, result, sample, copy, conversion>>

\* wea.global_horizontal_irradiance
SampleGlobalHorizontal ==
    /\ sample.exists
    /\ derived' = [derived EXCEPT !.global_horizontal_irradiance =
                       global_horizontal_irradiance(sample)]
    /\ UNCHANGED <<raise_exception_default, header, h_result, wea, result, sample, copy, conversion>>

\* wea.direct_horizontal_irradiance
SampleDirectHorizontal ==
    /\ sample.exists
    /\ derived' = [derived EXCEPT !.direct_horizontal_irradiance =
                       direct_horizontal_irradiance(sample)]
    /\ UNCHANGED <<raise_exception_default, header, h_result, wea, result, sample, copy, conversion>>

NextSample ==
    \/ SampleDirectionalIrradiance
    \/ SampleGlobalHorizontal
    \/ SampleDirectHorizontal

SpecSample == InitSample /\ [][NextSample]_vars

\* C6: once directional_irradiance(altitude=90) with an isotropic sky and
\* the two horizontal properties have been evaluated for a sample, the
\* properties succeeded, the total equals the global horizontal irradiance,
\* the direct component the direct horizontal irradiance, the diffuse
\* component the stored diffuse horizontal irradiance, and the reflected
\* component is 0.
C6_UpwardSurfaceIsHorizontal ==
    LET d == derived.directional_irradiance
        glob == derived.global_horizontal_irradiance
        dirh == derived.direct_horizontal_irradiance
    IN  (/\ d.status = "ok"
         /\ d.altitude = 90
         /\ d.isotrophic
         /\ glob.status # "none"
         /\ dirh.status # "none") =>
            /\ glob.status = "ok"
            /\ dirh.status = "ok"
            /\ d.total = glob.value
            /\ d.direct = dirh.value
            /\ d.diffuse = sample.dhr * 100000000
            /\ d.reflected = 0

\* The length a series of the Wea w must have.
ExpectedLength(w) == w.timestep * (IF Truthy(w.is_leap_year) THEN 8784 ELSE 8760)

SetterOps == {"direct_normal_irradiance", "diffuse_horizontal_irradiance"}

\* C1: in every state reached by constructing a Wea and applying any
\* sequence of direct_normal_irradiance / diffuse_horizontal_irradiance setter
\* calls, each stored series has length timestep * hr_count(is_leap_year); a
\* setter call succeeds exactly when its series has that length, and a failing
\* call leaves the Wea as it was.
C1_SeriesLengthAnnual ==
    /\ wea.exists =>
          /\ wea.timestep >= 1
          /\ wea.direct_normal_irradiance.n = ExpectedLength(wea)
          /\ wea.diffuse_horizontal_irradiance.n = ExpectedLength(wea)
    /\ result.op \in SetterOps =>
          LET annual == /\ result.data.kind = "DataCollection"
                        /\ result.data.n = ExpectedLength(result.before)
          IN  /\ result.status = "ok" <=> annual
              /\ ~annual => result.status = "AssertionError" /\ wea = result.before

\* A Wea with several samples an hour has refused a series of hourly length.
C1_Witness ==
    /\ wea.exists
    /\ wea.timestep > 1
    /\ result.op = "direct_normal_irradiance"
    /\ result.data.n = 8760
    /\ result.status = "AssertionError"

\* C2: Wea.from_values with timestep >= 1 raises and returns no Wea when the
\* direct-normal or the diffuse-horizontal sequence has a length other than
\* timestep * hr_count(is_leap_year), and succeeds when both have it;
\* Wea.from_file inherits the check for the data lines of a wea file.
C2_FromValuesChecksLength ==
    /\ (result.op = "from_values" /\ result.timestep >= 1) =>
          LET expected == result.timestep *
                          (IF Truthy(result.is_leap_year) THEN 8784 ELSE 8760)
              annual == result.direct_n = expected /\ result.diffuse_n = expected
          IN  /\ annual => result.status = "ok" /\ wea.exists
              /\ ~annual => result.status = "AssertionError" /\ ~wea.exists
    /\ (result.op = "from_file" /\ result.weafile.is_file /\ result.weafile.place) =>
          LET expected == result.timestep *
                          (IF Truthy(result.is_leap_year) THEN 8784 ELSE 8760)
              annual == result.weafile.n = expected
          IN  /\ annual => result.status = "ok" /\ wea.exists
              /\ ~annual => result.status = "AssertionError" /\ ~wea.exists

\* C5: Wea.from_epw_file with timestep > 1 returns a Wea in which every
\* interpolated sample is 0 in both series when the sun altitude at its
\* timestamp is <= 0 and keeps its interpolated value in both series when the
\* altitude is > 0.
C5_SunDownSamplesZero ==
    (result.op = "from_epw_file" /\ result.timestep > 1) =>
        /\ result.status = "ok"
        /\ wea.exists
        /\ \A k \in 1..Len(result.epw.alts) :
              LET beam == interpolate_data(result.epw.direct_normal_radiation,
                                           result.timestep).vals[k]
                  diff == interpolate_data(result.epw.diffuse_horizontal_radiation,
                                           result.timestep).vals[k]
              IN  /\ result.epw.alts[k] <= 0 =>
                        /\ wea.direct_normal_irradiance.vals[k] = 0
                        /\ wea.diffuse_horizontal_irradiance.vals[k] = 0
                  /\ result.epw.alts[k] > 0 =>
                        /\ wea.direct_normal_irradiance.vals[k] = beam
                        /\ wea.diffuse_horizontal_irradiance.vals[k] = diff

\* C7 as amended: for every structured representation x accepted by
\* Wea.from_json that holds both optional keys with a non-zero integer timestep,
\* and so for every x that to_json of a Wea produces,
\* Wea.from_json(x).to_json() equals x.
C7_JsonRoundTripOfToJson ==
    /\ result.op = "to_json" => result.status = "ok" /\ result.back = result.x
    /\ (/\ result.op = "from_json"
        /\ result.status = "ok"
        /\ optional_keys \subseteq result.x.keys
        /\ result.x.timestep.t = "int"
        /\ result.x.timestep.v # 0) => to_json(wea) = result.x

\* A Wea with several samples an hour of a leap year went through to_json,
\* from_json and to_json again.
C7_Witness ==
    /\ result.op = "to_json"
    /\ wea.timestep > 1
    /\ Truthy(wea.is_leap_year)
    /\ result.status = "ok"

\* C7 as stated: for every structured representation x accepted by
\* Wea.from_json, Wea.from_json(x).to_json() equals x.
C7_JsonRoundTripAnyInput ==
    (result.op = "from_json" /\ result.status = "ok") => to_json(wea) = result.x

\* The hoys of a request that have a sample in the Wea, in request order.
HoysWithSample(w, hoys) ==
    SelectSeq(hoys, LAMBDA h : h * w.timestep < w.direct_normal_irradiance.n)

\* A write call with an explicit, non-empty sequence of hoys.
SubsetWrite == result.op = "write" /\ ~result.hoys.none /\ result.hoys.seq # <<>>

\* C9: Wea.write with explicit hoys skips every requested hoy that has no
\* sample, wherever it stands in the request, writes a line for each of the
\* other requested hoys, and returns the file path without raising.
C9_MissingHoySkipped ==
    SubsetWrite =>
        LET kept == HoysWithSample(wea, result.hoys.seq) IN
        /\ result.status = "ok"
        /\ result.returned # <<>>
        /\ result.wea_file.written
        /\ result.wea_file.lines = [k \in 1..Len(kept) |-> kept[k] * wea.timestep]

\* C10: after Wea.write with explicit hoys and write_hours, the .hrs file
\* next to the .wea file lists exactly the hoys whose data lines were written,
\* in the same order; a skipped hoy is not listed.
C10_HrsListsWrittenHoys ==
    (SubsetWrite /\ result.write_hours /\ result.status = "ok") =>
        /\ result.hrs_file.written
        /\ result.hrs_file.path =
              SubSeq(result.wea_file.path, 1, Len(result.wea_file.path) - 1) \o <<".hrs">>
        /\ result.hrs_file.lines = HoysWithSample(wea, result.hoys.seq)

\* The months (counted from 0) in which a sequence of optical depths is null.
NullMonths(opt_data) == {i - 1 : i \in {j \in 1..Len(opt_data) : opt_data[j] = PyNone}}

\* The first of a non-empty set of months.
FirstMonth(months) == CHOOSE m \in months : \A other \in months : m <= other

\* C11: Wea.from_stat_file returns no Wea and raises ValueError when the
\* optical depths are empty (message 'Stat file contains no optical data.') or
\* hold a null; the beam sequence is checked completely before the diffuse
\* sequence, and the message names the failing sequence and its first null
\* month, counted from 0 as the code counts the entries.
C11_MissingOpticalDepthNamed ==
    result.op = "from_stat_file" =>
        LET beam == result.stat.monthly_tau_beam
            diffuse == result.stat.monthly_tau_diffuse
            beam_fails == beam = <<>> \/ NullMonths(beam) # {}
            diffuse_fails == diffuse = <<>> \/ NullMonths(diffuse) # {}
            failing == IF beam_fails THEN beam ELSE diffuse
            failing_name == IF beam_fails THEN "monthly_tau_beam"
                            ELSE "monthly_tau_diffuse"
        IN  (beam_fails \/ diffuse_fails) =>
                /\ result.status = "ValueError"
                /\ ~wea.exists
                /\ failing = <<>> =>
                      result.message.text = "Stat file contains no optical data."
                /\ failing # <<>> =>
                      /\ result.message.data_name = failing_name
                      /\ result.message.month = FirstMonth(NullMonths(failing))

\* Both sequences hold nulls, the diffuse one in an earlier month, and the
\* error names the beam sequence and the first of its two null months.
C11_Witness ==
    /\ result.op = "from_stat_file"
    /\ result.status = "ValueError"
    /\ Cardinality(NullMonths(result.stat.monthly_tau_beam)) = 2
    /\ NullMonths(result.stat.monthly_tau_diffuse) = {0}
    /\ result.message.data_name = "monthly_tau_beam"
    /\ result.message.month = 4

\* C13: a Wea built by from_ashrae_clear_sky for a leap year with timestep 1
\* exists, its series hold 8784 samples, sample 1416 is stamped February 29th
\* 00:30 and sample 1428 February 29th 12:30.
C13_LeapYearStamps ==
    (/\ result.op = "from_ashrae_clear_sky"
     /\ result.timestep = 1
     /\ Truthy(result.is_leap_year)) =>
        /\ result.status = "ok"
        /\ wea.exists
        /\ wea.direct_normal_irradiance.n = 8784
        /\ wea.diffuse_horizontal_irradiance.n = 8784
        /\ from_moy(sample_moy(wea.direct_normal_irradiance, 1, 1416), PyBool(TRUE))
              = [month |-> 2, day |-> 29, hour |-> 0, minute |-> 30]
        /\ from_moy(sample_moy(wea.direct_normal_irradiance, 1, 1428), PyBool(TRUE))
              = [month |-> 2, day |-> 29, hour |-> 12, minute |-> 30]

\* The length of the sequence that from_values rejects: the direct one when
\* its length is wrong, else the diffuse one.
OffendingLength ==
    IF result.direct_n # ExpectedLength(result) THEN result.direct_n ELSE result.diffuse_n

\* C14: when from_values fails on a length, its message states the expected
\* count timestep * hr_count, and it suggests a timestep exactly when the
\* length of the rejected sequence is a multiple of the expected count, the
\* suggested timestep being the one that length is annual for.
C14_LengthMessage ==
    (result.op = "from_values" /\ result.status = "AssertionError") =>
        /\ result.message.expected = ExpectedLength(result)
        /\ result.message.hint <=> (OffendingLength % ExpectedLength(result) = 0)
        /\ result.message.hint =>
              result.message.hint_timestep * hr_count(result.is_leap_year)
                  = OffendingLength

\* C15: from_values with timestep t and two sequences of annual length
\* returns a Wea whose k-th direct and k-th diffuse samples are the k-th input
\* values, both stamped with minute 60 * k / t of the year, half an hour
\* later when t is 1.
C15_FromValuesPairsInOrder ==
    (/\ result.op = "from_values"
     /\ result.timestep > 0
     /\ result.direct_n = ExpectedLength(result)
     /\ result.diffuse_n = ExpectedLength(result)) =>
        /\ result.status = "ok"
        /\ wea.exists
        /\ wea.direct_normal_irradiance.vals = result.direct_vals
        /\ wea.diffuse_horizontal_irradiance.vals = result.diffuse_vals
        /\ \A k \in 0..(MaxWindow - 1) :
              /\ sample_moy(wea.direct_normal_irradiance, result.timestep, k)
                    = (60 * k) \div result.timestep
                        + (IF result.timestep = 1 THEN 30 ELSE 0)
              /\ sample_moy(wea.diffuse_horizontal_irradiance, result.timestep, k)
                    = sample_moy(wea.direct_normal_irradiance, result.timestep, k)

\* C17: Header.duplicate returns a header with the data type, unit, analysis
\* period and metadata of the original, and from then on no operation on one
\* of the two headers (its setters, a rename of its data type object, an
\* entry put in its metadata) changes the other.
C17_DuplicateIndependent ==
    /\ [](h_result.op = "duplicate" =>
            h_result.status = "ok" /\ copy.exists /\ copy.h = header)
    /\ [][(copy.exists /\ copy'.exists) =>
            (header' = header \/ copy'.h = copy.h)]_vars

\* The copy was renamed and given a metadata entry; the original, which had
\* neither, has neither.
C17_Witness ==
    /\ copy.exists
    /\ copy.h.data_type.name = "Zone Load"
    /\ <<"city", "y">> \in copy.h.metadata
    /\ header.data_type.name # "Zone Load"
    /\ header.metadata = {}

\* C18: in every Wea a constructor has returned, after any successful setter
\* calls, the k-th direct and the k-th diffuse sample carry the same
\* timestamp.
C18_SeriesCoIndexed ==
    wea.exists =>
        \A k \in 0..(MaxWindow - 1) :
            k < wea.direct_normal_irradiance.n =>
                sample_moy(wea.direct_normal_irradiance, wea.timestep, k)
                    = sample_moy(wea.diffuse_horizontal_irradiance, wea.timestep, k)

\* C19: the global horizontal irradiance of a sample is its diffuse
\* irradiance plus its direct irradiance times the sine of the sun
\* altitude, its direct horizontal irradiance is the direct irradiance times
\* that sine, and both properties return their series.
C19_HorizontalIrradiance ==
    LET glob == derived.global_horizontal_irradiance
        dirh == derived.direct_horizontal_irradiance
    IN  (glob.status # "none" /\ dirh.status # "none") =>
            /\ glob.status = "ok"
            /\ dirh.status = "ok"
            /\ dirh.value = sample.dnr * sin(sample.sun_altitude) * 100000
            /\ glob.value = sample.dhr * 100000000 + dirh.value

\* C20: the direct component directional_irradiance returns for a sample is
\* direct * cos(angle) when the sun is above the horizon and less than 90
\* degrees from the surface normal, and 0 otherwise.
C20_DirectComponent ==
    LET d == derived.directional_irradiance IN
    d.status = "ok" =>
        LET angle == vec_angle(sample.sun_azimuth, sample.sun_altitude,
                               d.azimuth, d.altitude)
        IN  IF sample.sun_altitude > 0 /\ angle < 90
            THEN d.direct = sample.dnr * cos(angle) * 100000
            ELSE d.direct = 0

\* The sun is 30 degrees below the horizon and 30 degrees from the normal of
\* a vertical surface, the stored direct irradiance is not 0, the direct
\* component is.
C20_Witness ==
    LET d == derived.directional_irradiance IN
    /\ d.status = "ok"
    /\ sample.dnr = 4
    /\ sample.sun_altitude = -30
    /\ d.altitude = 0
    /\ d.azimuth = sample.sun_azimuth
    /\ d.direct = 0

\* C21: directional_irradiance called with the anisotropic sky
\* (isotrophic=False) and a legal ground reflectance completes and returns
\* its four components for the sample.
C21_AnisotropicCompletes ==
    LET d == derived.directional_irradiance IN
    (d.status \notin {"none", "ValueError"} /\ ~d.isotrophic) => d.status = "ok"

\* The reads of dry_bulb_temperature followed that belong to the first three
\* hours of the year, and to the rest of it.
EarlyCounts == {count \in DOMAIN result.dry_bulb_t3_hrs : count < 3 * result.timestep}
LaterCounts == {count \in DOMAIN result.dry_bulb_t3_hrs : count >= 3 * result.timestep}

\* C22: from_zhang_huang_solar, given lists that pass its checks, calls the
\* regression, and for each of the first 3 * timestep samples the prior dry
\* bulb temperature it passes is read from the end of the list, at index
\* len + k - 3 * timestep.
C22_EarlyLookupWraps ==
    (result.op = "from_zhang_huang_solar" /\ result.checked) =>
        /\ result.fed
        /\ \A count \in EarlyCounts :
              LET read == result.dry_bulb_t3_hrs[count] IN
              /\ read.index = result.dry_bulb_temperature.n + count - 3 * result.timestep
              /\ read.value = result.dry_bulb_temperature.first + read.index

\* With six samples an hour the first prior temperature is the one eighteen
\* samples before the end of the year.
C22_Witness ==
    /\ result.op = "from_zhang_huang_solar"
    /\ result.fed
    /\ result.timestep > 1
    /\ 0 \in EarlyCounts
    /\ result.dry_bulb_t3_hrs[0].index
          = result.dry_bulb_temperature.n - 3 * result.timestep
    /\ result.dry_bulb_t3_hrs[0].value
          = 20 + result.dry_bulb_temperature.n - 3 * result.timestep

\* C22 as the spec states it: no prior temperature of the first
\* 3 * timestep samples is read from the end of the list.
C22_NoWrapAround ==
    (result.op = "from_zhang_huang_solar" /\ result.fed) =>
        \A count \in EarlyCounts :
            result.dry_bulb_t3_hrs[count].index
                # result.dry_bulb_temperature.n + count - 3 * result.timestep

\* C27: from_zhang_huang_solar, given lists that pass its checks, calls the
\* regression with three lists of one entry per sample, the k-th entry
\* computed for the k-th datetime, and for k >= 3 * timestep the prior dry bulb
\* temperature of sample k is dry_bulb_temperature[k - 3 * timestep].
C27_PriorTemperatureThreeHoursBack ==
    (result.op = "from_zhang_huang_solar" /\ result.checked) =>
        /\ result.fed
        /\ result.entries.altitudes = result.dry_bulb_temperature.n
        /\ result.entries.doys = result.dry_bulb_temperature.n
        /\ result.entries.dry_bulb_t3_hrs = result.dry_bulb_temperature.n
        /\ \A count \in DOMAIN result.moys :
              result.moys[count] = (60 * count) \div result.timestep
                                      + (IF result.timestep = 1 THEN 30 ELSE 0)
        /\ \A count \in LaterCounts :
              LET read == result.dry_bulb_t3_hrs[count] IN
              /\ read.index = count - 3 * result.timestep
              /\ read.value = result.dry_bulb_temperature.first + read.index

\* With six samples an hour, sample 18 gets the first temperature of the
\* year and the last sample the one eighteen samples before it.
C27_Witness ==
    /\ result.op = "from_zhang_huang_solar"
    /\ result.fed
    /\ result.timestep > 1
    /\ 3 * result.timestep \in LaterCounts
    /\ result.dry_bulb_t3_hrs[3 * result.timestep].index = 0
    /\ result.dry_bulb_t3_hrs[3 * result.timestep].value = -10
    /\ result.dry_bulb_t3_hrs[result.dry_bulb_temperature.n - 1].index
          = result.dry_bulb_temperature.n - 1 - 3 * result.timestep

\* The samples whose timestamps are looked at: the first, the two the test
\* of from_epw_file reads, the turn of the first day, and the last.
StampedSamples == {0, 7, 8, 23, 24, hr_count(PyBool(FALSE)) - 1}

\* C23: Wea.from_epw_file with timestep 1 returns a Wea for a year of 8760
\* hours that is no leap year, whose series keep the values of the weather
\* file, each sample stamped half an hour after its timestamp in the file:
\* sample k at hour k mod 24, minute 30.
C23_EpwHourlyShiftedHalfHour ==
    (result.op = "from_epw_file" /\ result.timestep = 1) =>
        /\ result.status = "ok"
        /\ wea.exists
        /\ ~Truthy(wea.is_leap_year)
        /\ wea.direct_normal_irradiance.n = 8760
        /\ wea.diffuse_horizontal_irradiance.n = 8760
        /\ wea.direct_normal_irradiance.vals = result.epw.direct_normal_radiation.vals
        /\ wea.diffuse_horizontal_irradiance.vals
              = result.epw.diffuse_horizontal_radiation.vals
        /\ \A k \in StampedSamples :
              \A series \in {wea.direct_normal_irradiance,
                             wea.diffuse_horizontal_irradiance} :
                  LET dt == from_moy(sample_moy(series, 1, k), PyBool(FALSE)) IN
                  /\ dt.hour = k % 24
                  /\ dt.minute = 30
                  /\ sample_moy(series, 1, k)
                        = 60 * k + result.epw.direct_normal_radiation.adj + 30

\* An hourly Wea read from a weather file: direct value 5 and diffuse value
\* 3 at the first sample, stamped 00:30.
C23_Witness ==
    /\ result.op = "from_epw_file"
    /\ result.timestep = 1
    /\ wea.exists
    /\ wea.direct_normal_irradiance.vals[1] = 5
    /\ wea.diffuse_horizontal_irradiance.vals[1] = 3
    /\ wea.direct_normal_irradiance.adj = 30
    /\ wea.diffuse_horizontal_irradiance.adj = 30

\* C24: Wea.write writes a line for every sample of the year exactly when
\* no hoys are given; given a sequence of hoys that all have a sample, it
\* writes the lines of those hoys and no other, in the order of the request,
\* the line of hoy h holding sample h * timestep of both series.
C24_WriteModes ==
    (result.op = "write"
        /\ HoysWithSample(wea, result.hoys.seq) = result.hoys.seq) =>
        /\ result.status = "ok"
        /\ result.wea_file.written
        /\ result.wea_file.full <=> result.hoys.none
        /\ ~result.hoys.none =>
              result.wea_file.lines
                  = [k \in 1..Len(result.hoys.seq) |-> result.hoys.seq[k] * wea.timestep]

\* C25: Wea._get_empty_data_collections completes for every timestep >= 1
\* and leap flag and returns two empty series whose headers carry the data
\* types 'Direct Normal Irradiance' and 'Diffuse Horizontal Irradiance' and
\* the unit 'W/m2': Header.__init__ accepts the arguments it is called with.
C25_EmptyCollectionsBuilt ==
    result.op = "_get_empty_data_collections" =>
        /\ result.status = "ok"
        /\ result.direct_norm_rad.n = 0
        /\ result.diffuse_horiz_rad.n = 0
        /\ result.header_dnr.exists
        /\ result.header_dnr.data_type.name = "Direct Normal Irradiance"
        /\ result.header_dnr.unit = "W/m2"
        /\ result.header_dhr.exists
        /\ result.header_dhr.data_type.name = "Diffuse Horizontal Irradiance"
        /\ result.header_dhr.unit = "W/m2"

\* A call of a clear sky constructor: from_ashrae_clear_sky, or
\* from_ashrae_revised_clear_sky reached through from_stat_file with twelve
\* optical depths in each sequence.
ClearSkyCall ==
    \/ result.op = "from_ashrae_clear_sky"
    \/ /\ result.op = "from_stat_file"
       /\ result.stat.monthly_tau_beam # <<>>
       /\ result.stat.monthly_tau_diffuse # <<>>
       /\ NullMonths(result.stat.monthly_tau_beam) = {}
       /\ NullMonths(result.stat.monthly_tau_diffuse) = {}

\* C26: the two clear sky constructors return a Wea whose series, put
\* together from the twelve monthly runs of the sky model, hold
\* timestep * hr_count samples, the k-th one stamped with the k-th
\* datetime generated.
C26_MonthlyRunsInOrder ==
    ClearSkyCall =>
        /\ result.status = "ok"
        /\ wea.exists
        /\ \A series \in {wea.direct_normal_irradiance,
                          wea.diffuse_horizontal_irradiance} :
              /\ series.n = result.timestep * hr_count(result.is_leap_year)
              /\ \A k \in 0..(MaxWindow - 1) :
                    sample_moy(series, result.timestep, k)
                        = (60 * k) \div result.timestep
                            + (IF result.timestep = 1 THEN 30 ELSE 0)

\* C28: Wea.from_file, reading the file a Wea has written, returns a Wea
\* whose location has the UTC offset and the longitude of the Wea written.
C28_HeaderRestoresLocation ==
    result.op = "write_from_file" =>
        /\ result.location.time_zone = wea.location.time_zone
        /\ result.location.longitude = wea.location.longitude
        /\ result.status = "ok"
        /\ result.restored.exists
        /\ result.restored.location = result.location

====
